---- MODULE Spec2Model ----
(***************************************************************************)
(* Model of the HRVSTR python-sentiment-service core: the result cache     *)
(* (utils/cache_manager.py), the ensemble combiner (sentiment_analyzer.py) *)
(* and the confidence enhancer (utils/response_formatter.py).              *)
(*                                                                         *)
(* Python floats are modelled as exact rationals <<n, d>> with d > 0, kept *)
(* in lowest terms; a square root is kept symbolic (see Agreement).        *)
(* Wall-clock time is an integer number of seconds.                        *)
(***************************************************************************)
EXTENDS Integers, Sequences, FiniteSets, TLC

VARIABLES
    \* ---- CacheManager (utils/cache_manager.py)
    redis_client,              \* TRUE: a Redis client is held; FALSE: None (memory fallback)
    redis_store,               \* the remote store: key -> [value, expires]
    memory_cache,              \* self._memory_cache: key -> cached_value
    memory_cache_timestamps,   \* self._memory_cache_timestamps: key -> time of the set
    last_cleanup,              \* self._last_cleanup, NoCleanup while the attribute is unset
    now,                       \* the wall clock, in seconds
    ticks,                     \* how many times the clock has advanced
    op,                        \* the last cache operation and what it returned
    put_log,                   \* key -> the last successful set of that key (history)
    \* ---- CacheManager.generate_cache_key
    texts, tickers, source, options,   \* the arguments, in the caller's order
    keys_seen,                 \* every key computed for this request so far
    hashed_here,               \* the key of the arguments as they now stand was computed
    \* ---- AdvancedSentimentAnalyzer / ResponseFormatter, one item
    pc,                        \* position in the item pipeline
    models,                    \* results['models']: provider id -> result
    ensemble,                  \* results['ensemble']
    fmt_in,                    \* format_single_result's source, text length and entities
    enhanced_confidence,       \* format_single_result's enhanced_confidence, unrounded
    sentiment,                 \* the 'sentiment' block of the formatted response
    \* ---- app.py, one request at a time through /analyze or /analyze/single
    data,                      \* request.get_json() of the request being handled
    handler,                   \* the handler's position and its local variables
    trace,                     \* the calls the handler has made for this request
    response,                  \* what the handler returned: status and body
    computed,                  \* cache key -> the body last computed for it on a miss
    served,                    \* how many requests have been received
    \* ---- CacheManager's in-memory fallback under app.run(threaded=True)
    thr,                       \* thread -> the cache call it is in, and its locals
    calls,                     \* thread -> how many cache calls it has made
    \* ---- ResponseFormatter.format_batch_results
    batch_in,                  \* analysis_results, original_texts, tickers, source
    batch_out,                 \* the formatted batch response
    batch_stats,               \* what _calculate_aggregate_stats returned for the batch
    \* ---- TextPreprocessor.preprocess (utils/text_preprocessor.py)
    norm                       \* the call: its arguments, position, text so far, result

cacheVars == <<redis_client, redis_store, memory_cache, memory_cache_timestamps,
               last_cleanup, now, ticks, op, put_log>>
keyVars == <<texts, tickers, source, options, keys_seen, hashed_here>>
itemVars == <<pc, models, ensemble, fmt_in, enhanced_confidence, sentiment>>
reqVars == <<data, handler, trace, response, computed, served>>
thrVars == <<thr, calls>>
batchVars == <<batch_in, batch_out, batch_stats>>
textVars == <<norm>>
flowVars == <<reqVars, thrVars, batchVars, textVars>>
vars == <<cacheVars, keyVars, itemVars, flowVars>>

----------------------------------------------------------------------------
(* Rationals *)

RECURSIVE GCD(_, _)
GCD(a, b) ==
    IF b = 0 THEN a ELSE GCD(b, a % b)

Abs(x) ==
    IF x < 0 THEN -x ELSE x

Rat(n, d) ==
    LET g == GCD(Abs(n), Abs(d))
        s == IF d < 0 THEN -1 ELSE 1
    IN  <<(s * n) \div g, (s * d) \div g>>

\* common factors are taken out before multiplying, so that no product leaves 32 bits
RAdd(a, b) ==
    LET g == GCD(a[2], b[2])
    IN  Rat(a[1] * (b[2] \div g) + b[1] * (a[2] \div g), (a[2] \div g) * b[2])
RSub(a, b) ==
    LET g == GCD(a[2], b[2])
    IN  Rat(a[1] * (b[2] \div g) - b[1] * (a[2] \div g), (a[2] \div g) * b[2])
RMul(a, b) ==
    LET g1 == GCD(Abs(a[1]), b[2])
        g2 == GCD(Abs(b[1]), a[2])
    IN  Rat((a[1] \div g1) * (b[1] \div g2), (a[2] \div g2) * (b[2] \div g1))
RDiv(a, b) ==
    RMul(a, IF b[1] < 0 THEN <<-b[2], -b[1]>> ELSE <<b[2], b[1]>>)
RLt(a, b) == a[1] * b[2] < b[1] * a[2]
RLe(a, b) == a[1] * b[2] <= b[1] * a[2]
RMin(a, b) == IF RLt(b, a) THEN b ELSE a
RMax(a, b) == IF RLt(a, b) THEN b ELSE a
RAbs(a) == <<Abs(a[1]), a[2]>>
Zero == <<0, 1>>
One == <<1, 1>>
Tenths(n) == Rat(n, 10)

----------------------------------------------------------------------------
(* CacheManager *)

default_ttl == 1800
cleanup_interval == 300

MaxTicks == 2
Jumps == {2, 300, 1800}
CacheKeys == {"k1", "k2"}
Payloads == {[results |-> "r1"], [results |-> "r2"]}
\* the ttl argument of set; 0 stands for both None and 0, which `ttl or default` merges
TtlArgs == {0, 1, 3600}

NoCleanup == -1
EmptyDict == [k \in {} |-> 0]
NoneResult == [kind |-> "None"]
Found(v) == [kind |-> "value", value |-> v]
Returned(b) == [kind |-> "bool", value |-> b]
Stats(st) == [kind |-> "stats", value |-> st]
\* an exception on its way out of a block of code
Raised(e) == [kind |-> "raise", exc |-> e]

\* a call to the Redis server: its result, or the exception of a failed call
RedisCall(answers, result) ==
    IF answers THEN result ELSE Raised("ConnectionError")

\* a method body without its except clause: the exception reaches the caller
TryExceptReraise(outcome, fallback) ==
    outcome

\* try: <body> / except Exception as e: logger.error(...); return <fallback>
TryExcept(outcome, fallback) ==
    IF outcome.kind = "raise" THEN fallback ELSE outcome

Without(d, k) == [x \in DOMAIN d \ {k} |-> d[x]]
With(d, k, v) == [x \in DOMAIN d \cup {k} |-> IF x = k THEN v ELSE d[x]]

\* json.dumps(cached_value, default=str): the object written out field by field
JsonDumps(v) == <<"data", v.data, "cached_at", v.cached_at, "ttl", v.ttl>>
\* json.loads of such a string
JsonLoads(s) == [data |-> s[2], cached_at |-> s[4], ttl |-> s[6]]

\* the remote store drops a key once its own expiry time is reached
RedisLive(store, t) == [k \in {x \in DOMAIN store : t < store[x].expires} |-> store[k]]

\* set(): `ttl = ttl or self.default_ttl`
EffectiveTtl(ttl) ==
    IF ttl = 0 THEN default_ttl ELSE ttl

\* set(): the value that is stored
CachedValue(value, ttl) ==
    [data |-> value, cached_at |-> now, ttl |-> EffectiveTtl(ttl)]

\* get(), memory branch: the freshness test of an entry set at time ts
MemoryFresh(ts) ==
    now - ts < default_ttl

\* _cleanup_memory_cache, run on the mapping and the timestamp index as they
\* stand at the end of set(): what the three attributes are afterwards
CleanupMemoryCache(cache, stamps) ==
    LET last1 == IF last_cleanup = NoCleanup THEN now ELSE last_cleanup
        expired_keys == {k \in DOMAIN stamps : now - stamps[k] >= default_ttl}
    IN  IF now - last1 < cleanup_interval
        THEN [cache |-> cache, stamps |-> stamps, last |-> last1]
        ELSE [cache |-> [k \in DOMAIN cache \ expired_keys |-> cache[k]],
              stamps |-> [k \in DOMAIN stamps \ expired_keys |-> stamps[k]],
              last |-> now]

\* what get() hands back for a hit
GetResult(stored) ==
    Found(stored)

CacheInit ==
    /\ redis_client \in BOOLEAN
    /\ redis_store = EmptyDict
    /\ memory_cache = EmptyDict
    /\ memory_cache_timestamps = EmptyDict
    /\ last_cleanup = NoCleanup
    /\ now = 0
    /\ ticks = 0
    /\ op = [name |-> "init", key |-> "", at |-> 0, ret |-> NoneResult]
    /\ put_log = EmptyDict

\* the clock moves on by d seconds
Advance(d) ==
    /\ ticks < MaxTicks
    /\ now' = now + d
    /\ redis_store' = RedisLive(redis_store, now + d)
    /\ ticks' = ticks + 1
    /\ UNCHANGED <<redis_client, memory_cache, memory_cache_timestamps, last_cleanup,
                   op, put_log>>

\* time passes between requests
Tick ==
    \E d \in Jumps : Advance(d)

\* get(key) with a Redis client; the call to the server either answers or raises
GetRedis(key, answers) ==
    /\ redis_client
    /\ op' = [name |-> "get", key |-> key, at |-> now,
              ret |-> TryExcept(
                         RedisCall(answers,
                                   IF key \in DOMAIN redis_store
                                   THEN GetResult(JsonLoads(redis_store[key].value))
                                   ELSE NoneResult),
                         NoneResult)]
    /\ UNCHANGED <<redis_client, redis_store, memory_cache, memory_cache_timestamps,
                   last_cleanup, now, ticks, put_log>>

\* get(key) on the in-memory fallback: lazy expiry on read
GetMemory(key) ==
    /\ ~redis_client
    /\ IF key \in DOMAIN memory_cache
       THEN IF key \in DOMAIN memory_cache_timestamps
               /\ MemoryFresh(memory_cache_timestamps[key])
            THEN /\ op' = [name |-> "get", key |-> key, at |-> now,
                           ret |-> GetResult(memory_cache[key])]
                 /\ UNCHANGED <<memory_cache, memory_cache_timestamps, put_log>>
            ELSE /\ memory_cache' = Without(memory_cache, key)
                 /\ memory_cache_timestamps' = Without(memory_cache_timestamps, key)
                 /\ op' = [name |-> "get", key |-> key, at |-> now, ret |-> NoneResult]
                 /\ UNCHANGED put_log
       ELSE /\ op' = [name |-> "get", key |-> key, at |-> now, ret |-> NoneResult]
            /\ UNCHANGED <<memory_cache, memory_cache_timestamps, put_log>>
    /\ UNCHANGED <<redis_client, redis_store, last_cleanup, now, ticks>>

\* set(key, value, ttl) with a Redis client: setex, or False when the call raises
SetRedis(key, value, ttl, answers) ==
    /\ redis_client
    /\ IF answers
       THEN /\ redis_store' = With(redis_store, key,
                    [value |-> JsonDumps(CachedValue(value, ttl)),
                     expires |-> now + EffectiveTtl(ttl)])
            /\ put_log' = With(put_log, key,
                    [value |-> value, ttl |-> EffectiveTtl(ttl), at |-> now])
       ELSE UNCHANGED <<redis_store, put_log>>
    /\ op' = [name |-> "set", key |-> key, at |-> now,
              ret |-> TryExcept(RedisCall(answers, Returned(TRUE)), Returned(FALSE))]
    /\ UNCHANGED <<redis_client, memory_cache, memory_cache_timestamps, last_cleanup,
                   now, ticks>>

\* set(key, value, ttl) on the in-memory fallback, with the sweep it ends with
SetMemory(key, value, ttl) ==
    LET swept == CleanupMemoryCache(With(memory_cache, key, CachedValue(value, ttl)),
                                    With(memory_cache_timestamps, key, now))
    IN  /\ ~redis_client
        /\ memory_cache' = swept.cache
        /\ memory_cache_timestamps' = swept.stamps
        /\ last_cleanup' = swept.last
        /\ put_log' = With(put_log, key,
                [value |-> value, ttl |-> EffectiveTtl(ttl), at |-> now])
        /\ op' = [name |-> "set", key |-> key, at |-> now, ret |-> Returned(TRUE)]
        /\ UNCHANGED <<redis_client, redis_store, now, ticks>>

\* delete(key) with a Redis client
DeleteRedis(key, answers) ==
    /\ redis_client
    /\ IF answers
       THEN /\ redis_store' = Without(redis_store, key)
            /\ put_log' = Without(put_log, key)
       ELSE UNCHANGED <<redis_store, put_log>>
    /\ op' = [name |-> "delete", key |-> key, at |-> now,
              ret |-> TryExcept(RedisCall(answers, Returned(key \in DOMAIN redis_store)),
                                Returned(FALSE))]
    /\ UNCHANGED <<redis_client, memory_cache, memory_cache_timestamps, last_cleanup,
                   now, ticks>>

\* delete(key) on the in-memory fallback
DeleteMemory(key) ==
    /\ ~redis_client
    /\ IF key \in DOMAIN memory_cache
       THEN /\ memory_cache' = Without(memory_cache, key)
            /\ memory_cache_timestamps' = Without(memory_cache_timestamps, key)
            /\ put_log' = Without(put_log, key)
            /\ op' = [name |-> "delete", key |-> key, at |-> now, ret |-> Returned(TRUE)]
       ELSE /\ op' = [name |-> "delete", key |-> key, at |-> now, ret |-> Returned(FALSE)]
            /\ UNCHANGED <<memory_cache, memory_cache_timestamps, put_log>>
    /\ UNCHANGED <<redis_client, redis_store, last_cleanup, now, ticks>>

\* clear_all() with a Redis client: keys(prefix*) then delete(*keys)
ClearAllRedis(answers) ==
    /\ redis_client
    /\ IF answers
       THEN /\ redis_store' = EmptyDict
            /\ put_log' = EmptyDict
       ELSE UNCHANGED <<redis_store, put_log>>
    /\ op' = [name |-> "clear_all", key |-> "", at |-> now,
              ret |-> TryExcept(RedisCall(answers, Returned(TRUE)), Returned(FALSE))]
    /\ UNCHANGED <<redis_client, memory_cache, memory_cache_timestamps, last_cleanup,
                   now, ticks>>

\* clear_all() on the in-memory fallback
ClearAllMemory ==
    /\ ~redis_client
    /\ memory_cache' = EmptyDict
    /\ memory_cache_timestamps' = EmptyDict
    /\ put_log' = EmptyDict
    /\ op' = [name |-> "clear_all", key |-> "", at |-> now, ret |-> Returned(TRUE)]
    /\ UNCHANGED <<redis_client, redis_store, last_cleanup, now, ticks>>

\* get_stats(): the record built before the try block
BaseStats ==
    [cache_type |-> IF redis_client THEN "redis" ELSE "memory",
     connected |-> redis_client,
     default_ttl |-> default_ttl,
     key_prefix |-> "sentiment:"]

\* get_stats() with a Redis client: info() and keys(prefix*), or stats['error']
GetStatsRedis(answers) ==
    /\ redis_client
    /\ op' = [name |-> "get_stats", key |-> "", at |-> now,
              ret |-> TryExcept(
                         RedisCall(answers,
                                   Stats([total_keys |-> Cardinality(DOMAIN redis_store)]
                                            @@ BaseStats)),
                         Stats([error |-> "ConnectionError"] @@ BaseStats))]
    /\ UNCHANGED <<redis_client, redis_store, memory_cache, memory_cache_timestamps,
                   last_cleanup, now, ticks, put_log>>

\* get_stats() on the in-memory fallback: the entries younger than default_ttl
GetStatsMemory ==
    LET valid_entries ==
            Cardinality({k \in DOMAIN memory_cache_timestamps :
                            MemoryFresh(memory_cache_timestamps[k])})
    IN  /\ ~redis_client
        /\ op' = [name |-> "get_stats", key |-> "", at |-> now,
                  ret |-> TryExcept(
                             Stats([total_keys |-> valid_entries,
                                    memory_entries |-> Cardinality(DOMAIN memory_cache),
                                    expired_entries |->
                                        Cardinality(DOMAIN memory_cache) - valid_entries]
                                      @@ BaseStats),
                             Stats([error |-> "Exception"] @@ BaseStats))]
        /\ UNCHANGED <<redis_client, redis_store, memory_cache, memory_cache_timestamps,
                       last_cleanup, now, ticks, put_log>>

KeyIdle ==
    /\ texts = <<>>
    /\ tickers = <<>>
    /\ source = "unknown"
    /\ options = <<>>
    /\ keys_seen = {}
    /\ hashed_here = FALSE

ItemIdle ==
    /\ pc = "idle"
    /\ models = EmptyDict
    /\ ensemble = EmptyDict
    /\ fmt_in = EmptyDict
    /\ enhanced_confidence = Zero
    /\ sentiment = EmptyDict

NoResponse == [status |-> 0]
Threads == {1, 2}
IdleThread == [pc |-> "idle"]

ReqIdle ==
    /\ data = EmptyDict
    /\ handler = [pc |-> "off"]
    /\ trace = <<>>
    /\ response = NoResponse
    /\ computed = EmptyDict
    /\ served = 0

ThrIdle ==
    /\ thr = [t \in Threads |-> [pc |-> "off"]]
    /\ calls = [t \in Threads |-> 0]

BatchIdle ==
    /\ batch_in = EmptyDict
    /\ batch_out = EmptyDict
    /\ batch_stats = EmptyDict

TextIdle ==
    norm = [pc |-> "off"]

FlowIdle ==
    /\ ReqIdle
    /\ ThrIdle
    /\ BatchIdle
    /\ TextIdle

Init ==
    /\ CacheInit
    /\ KeyIdle
    /\ ItemIdle
    /\ FlowIdle

\* the cache manager called on its own, nothing else running
Alone == UNCHANGED <<keyVars, itemVars, flowVars>>

Next ==
    \/ Tick /\ Alone
    \/ \E key \in CacheKeys, answers \in BOOLEAN : GetRedis(key, answers) /\ Alone
    \/ \E key \in CacheKeys : GetMemory(key) /\ Alone
    \/ \E key \in CacheKeys, value \in Payloads, ttl \in TtlArgs, answers \in BOOLEAN :
          SetRedis(key, value, ttl, answers) /\ Alone
    \/ \E key \in CacheKeys, value \in Payloads, ttl \in TtlArgs :
          SetMemory(key, value, ttl) /\ Alone
    \/ \E key \in CacheKeys, answers \in BOOLEAN : DeleteRedis(key, answers) /\ Alone
    \/ \E key \in CacheKeys : DeleteMemory(key) /\ Alone
    \/ \E answers \in BOOLEAN : ClearAllRedis(answers) /\ Alone
    \/ ClearAllMemory /\ Alone
    \/ \E answers \in BOOLEAN : GetStatsRedis(answers) /\ Alone
    \/ GetStatsMemory /\ Alone

Spec == Init /\ [][Next]_vars

----------------------------------------------------------------------------
(* Claims about the cache *)

\* the last operation was a get of a key whose last successful set is on record
\* and, by that entry's own ttl, had not expired when the get was made
GetBeforeExpiry ==
    /\ op.name = "get"
    /\ op.key \in DOMAIN put_log
    /\ op.at - put_log[op.key].at < put_log[op.key].ttl

\* C1: a get made before the entry expires that returns a value returns exactly
\* the payload that was passed to the last set of that key, nothing added,
\* removed or altered.
C1_RoundTrip ==
    (GetBeforeExpiry /\ op.ret.kind = "value")
        => op.ret.value = put_log[op.key].value

\* C2: on the in-process backend a get returns the entry exactly while less than
\* the entry's own ttl has elapsed since the set (ttl = 1, read at 2: absent).
C2_PerEntryTtl ==
    (~redis_client /\ op.name = "get" /\ op.key \in DOMAIN put_log)
        => (op.ret.kind = "value"
              <=> op.at - put_log[op.key].at < put_log[op.key].ttl)

\* C13: when the cache was built with the primary backend reachable and a
\* later put call to it fails, the put falls back to the in-process mapping:
\* it reports success and the entry is held, so that a following get finds it.
C13_CallTimeFallback ==
    (redis_client /\ op.name = "set")
        => /\ op.ret = Returned(TRUE)
           /\ op.key \in DOMAIN redis_store \cup DOMAIN memory_cache

\* C14: in every backend state and after any sequence of operations, get
\* returns a value or absent, set, delete and clear_all return true or false and
\* get_stats returns a stats record; none of them lets an exception out.
C14_NeverRaises ==
    /\ op.ret.kind # "raise"
    /\ op.name = "get" => op.ret.kind \in {"None", "value"}
    /\ op.name \in {"set", "delete", "clear_all"} => op.ret.kind = "bool"
    /\ op.name = "get_stats" =>
          /\ op.ret.kind = "stats"
          /\ op.ret.value.connected = redis_client

\* a step of clear_all whose backend answers
ClearAllStep ==
    ClearAllRedis(TRUE) \/ ClearAllMemory

\* the entries the backend in use holds
Held ==
    IF redis_client THEN DOMAIN redis_store ELSE DOMAIN memory_cache

\* a returned value read as a number, as Python compares it (True == 1)
AsNumber(ret) ==
    CASE ret.kind = "bool" -> IF ret.value THEN 1 ELSE 0
      [] ret.kind = "int" -> ret.value
      [] OTHER -> -1

\* the last operation was a clear_all that went through
Cleared ==
    op.name = "clear_all" /\ op.ret.kind # "raise" /\ op.ret # Returned(FALSE)

\* C25: clear_all removes every entry of the namespace and returns the number
\* of entries it removed; a get of any key made next returns absent and the
\* stats taken next report zero keys.
C25_InvalidateAll ==
    [][/\ ClearAllStep =>
            /\ redis_store' = EmptyDict
            /\ memory_cache' = EmptyDict
            /\ memory_cache_timestamps' = EmptyDict
            /\ AsNumber(op'.ret) = Cardinality(Held)
       /\ (Cleared /\ op'.name = "get") => op'.ret = NoneResult
       /\ (Cleared /\ op'.name = "get_stats" /\ "total_keys" \in DOMAIN op'.ret.value)
             => op'.ret.value.total_keys = 0]_vars

\* a step in which the sweep of the in-process backend ran: _last_cleanup,
\* already set, moves on
SweepRan ==
    /\ ~redis_client
    /\ last_cleanup # NoCleanup
    /\ last_cleanup' # last_cleanup

\* C26: the sweep of the in-process backend runs at most once per 5-minute
\* interval; when it runs, every entry that is past its ttl is gone from the
\* mapping and from the timestamp index, read or not, and every entry still
\* within its ttl is kept in both.
C26_PeriodicSweep ==
    [][SweepRan =>
          /\ last_cleanup' - last_cleanup >= cleanup_interval
          /\ \A k \in DOMAIN put_log' :
                LET age == now - put_log'[k].at
                IN  /\ age >= put_log'[k].ttl =>
                          /\ k \notin DOMAIN memory_cache'
                          /\ k \notin DOMAIN memory_cache_timestamps'
                    /\ (age < put_log'[k].ttl /\ (k \in DOMAIN memory_cache \/ k = op'.key)) =>
                          /\ k \in DOMAIN memory_cache'
                          /\ k \in DOMAIN memory_cache_timestamps']_vars

\* with entries stored through a reachable primary backend, a later call to it
\* failed and the operation still returned: a set reported false, or get_stats
\* returned its record with the error noted in it
C14_Witness ==
    /\ redis_client
    /\ put_log # EmptyDict
    /\ \/ op.name = "set" /\ op.ret = Returned(FALSE)
       \/ op.name = "get_stats" /\ "error" \in DOMAIN op.ret.value

----------------------------------------------------------------------------
(* CacheManager.generate_cache_key *)

\* Strings are modelled by integer codes whose order is the strings' order.
MaxBatch == 2
TextCodes == {1, 2, 3}
NoneTicker == 0
TickerCodes == {NoneTicker, 1, 2}
KeySources == {"news", "reddit"}
OptionKeys == {1, 2}
OptionValues == {0, 1}
SourceCode(s) == IF s = "news" THEN 1 ELSE 2

SeqsUpTo(S, lo, hi) == UNION {[1..n -> S] : n \in lo..hi}

\* the option dicts, as the sequence of their (key, value) items in insertion order
OptionDicts ==
    {o \in SeqsUpTo(OptionKeys \X OptionValues, 0, Cardinality(OptionKeys)) :
        \A i, j \in 1..Len(o) : i # j => o[i][1] # o[j][1]}

\* sorted() of a list of strings: insertion into the sorted rest
RECURSIVE Insert(_, _)
Insert(x, s) ==
    IF s = <<>> THEN <<x>>
    ELSE IF x < Head(s) THEN <<x>> \o s
    ELSE <<Head(s)>> \o Insert(x, Tail(s))

RECURSIVE Sorted(_)
Sorted(s) ==
    IF s = <<>> THEN <<>> ELSE Insert(Head(s), Sorted(Tail(s)))

\* sorted() of (key, value) items: the keys of a dict are distinct, so they decide
RECURSIVE InsertItem(_, _)
InsertItem(x, s) ==
    IF s = <<>> THEN <<x>>
    ELSE IF x[1] < Head(s)[1] THEN <<x>> \o s
    ELSE <<Head(s)>> \o InsertItem(x, Tail(s))

RECURSIVE SortedItems(_)
SortedItems(s) ==
    IF s = <<>> THEN <<>> ELSE InsertItem(Head(s), SortedItems(Tail(s)))

\* a sort that leaves the list as the caller gave it
SortedTextsUnsorted(t) ==
    t

\* sorted(texts)
SortedTexts(t) ==
    Sorted(t)

\* sorted(tickers) if tickers else []
SortedTickers(t) ==
    IF t = <<>> THEN <<>> ELSE Sorted(t)

\* sorted() compares None with another element as soon as there are two elements
SortedRaises(t) ==
    Len(t) >= 2 /\ \E i \in 1..Len(t) : t[i] = NoneTicker

\* dict(sorted(options.items()))
SortedOptions(o) ==
    SortedItems(o)

RECURSIVE Flatten(_)
Flatten(items) ==
    IF items = <<>> THEN <<>> ELSE <<Head(items)[1], Head(items)[2]>> \o Flatten(Tail(items))

\* json.dumps(cache_data, sort_keys=True): the members in key order (options,
\* source, texts, tickers), each list with its length, as a sequence of codes
CacheString(cache_data) ==
    <<Len(cache_data.options)>> \o Flatten(SortedOptions(cache_data.options))
        \o <<SourceCode(cache_data.source)>>
        \o <<Len(cache_data.texts)>> \o cache_data.texts
        \o <<Len(cache_data.tickers)>> \o cache_data.tickers

\* hashlib.sha256(...).hexdigest()[:16], modelled by a polynomial digest
HashMod == 2 ^ 16
RECURSIVE Digest(_)
Digest(codes) ==
    IF codes = <<>> THEN 7
    ELSE (Digest(SubSeq(codes, 1, Len(codes) - 1)) * 31 + codes[Len(codes)]) % HashMod

generate_cache_key(t, k, s, o) ==
    IF SortedRaises(k)
    THEN [raised |-> "TypeError", key |-> <<>>]
    ELSE [raised |-> "",
          key |-> <<"sentiment:", s,
                    Digest(CacheString([texts |-> SortedTexts(t),
                                        tickers |-> SortedTickers(k),
                                        source |-> s,
                                        options |-> SortedOptions(o)]))>>]

Swap(s, i) ==
    [j \in 1..Len(s) |-> IF j = i THEN s[i + 1] ELSE IF j = i + 1 THEN s[i] ELSE s[j]]

KeyInit ==
    /\ texts \in SeqsUpTo(TextCodes, 1, MaxBatch)
    /\ tickers \in SeqsUpTo(TickerCodes, 0, MaxBatch)
    /\ source \in KeySources
    /\ options \in OptionDicts
    /\ keys_seen = {}
    /\ hashed_here = FALSE

\* a caller computes the key of the request as it now stands
GenerateCacheKey ==
    /\ keys_seen' = keys_seen \cup {generate_cache_key(texts, tickers, source, options)}
    /\ hashed_here' = TRUE
    /\ UNCHANGED <<texts, tickers, source, options>>
    /\ UNCHANGED <<cacheVars, itemVars, flowVars>>

\* the same batch submitted in another order
PermuteTexts ==
    /\ \E i \in 1..(Len(texts) - 1) :
        /\ texts[i] # texts[i + 1]
        /\ texts' = Swap(texts, i)
    /\ hashed_here' = FALSE
    /\ UNCHANGED <<tickers, source, options, keys_seen>>
    /\ UNCHANGED <<cacheVars, itemVars, flowVars>>

PermuteTickers ==
    /\ \E i \in 1..(Len(tickers) - 1) :
        /\ tickers[i] # tickers[i + 1]
        /\ tickers' = Swap(tickers, i)
    /\ hashed_here' = FALSE
    /\ UNCHANGED <<texts, source, options, keys_seen>>
    /\ UNCHANGED <<cacheVars, itemVars, flowVars>>

\* the same options inserted in another order
PermuteOptions ==
    /\ \E i \in 1..(Len(options) - 1) : options' = Swap(options, i)
    /\ hashed_here' = FALSE
    /\ UNCHANGED <<texts, tickers, source, keys_seen>>
    /\ UNCHANGED <<cacheVars, itemVars, flowVars>>

CacheIdle ==
    /\ redis_client = FALSE
    /\ redis_store = EmptyDict
    /\ memory_cache = EmptyDict
    /\ memory_cache_timestamps = EmptyDict
    /\ last_cleanup = NoCleanup
    /\ now = 0
    /\ ticks = 0
    /\ op = [name |-> "init", key |-> "", at |-> 0, ret |-> NoneResult]
    /\ put_log = EmptyDict

InitKey ==
    /\ CacheIdle
    /\ KeyInit
    /\ ItemIdle
    /\ FlowIdle

NextKey ==
    \/ GenerateCacheKey
    \/ PermuteTexts
    \/ PermuteTickers
    \/ PermuteOptions

SpecKey == InitKey /\ [][NextKey]_vars

\* C3: the key is the same on every call and for every order of the texts, of
\* the tickers and of the option keys of one request: all keys computed for a
\* request, in whatever orders it was submitted, are one key.
C3_KeyDeterminism ==
    Cardinality(keys_seen) <= 1

IsSorted(s) ==
    \A i \in 1..(Len(s) - 1) : s[i] <= s[i + 1]

\* a key was computed for a request whose texts, tickers and options are all out
\* of order, and it is the key already computed for its other orders
C3_Witness ==
    /\ hashed_here
    /\ ~IsSorted(texts)
    /\ ~IsSorted(tickers)
    /\ Len(options) = 2 /\ options[1][1] > options[2][1]
    /\ \E k \in keys_seen : k.raised = ""
    /\ Cardinality(keys_seen) = 1

----------------------------------------------------------------------------
(* AdvancedSentimentAnalyzer: the providers and the ensemble *)

ModelNames == {"finbert", "vader", "textblob", "financial_lexicon"}
\* the order in which analyze_single inserts the results; "custom" stands for
\* any provider id that is not in the weight table
ModelOrder == <<"finbert", "vader", "textblob", "financial_lexicon", "custom">>

model_weights ==
    [m \in ModelNames |->
        CASE m = "finbert" -> Tenths(4)
          [] m = "vader" -> Tenths(3)
          [] m = "textblob" -> Tenths(2)
          [] m = "financial_lexicon" -> Tenths(1)]

\* _score_to_label (the analyzer's and the formatter's are the same text)
ScoreToLabel(score) ==
    IF RLt(Tenths(1), score) THEN "bullish"
    ELSE IF RLt(score, Tenths(-1)) THEN "bearish"
    ELSE "neutral"

\* the result every provider adapter returns from its except branch
ErrorResult ==
    [score |-> Zero, label |-> "neutral", confidence |-> Zero, error |-> TRUE]

\* _analyze_with_finbert, given the pipeline's output {label, score}
AnalyzeWithFinbert(raw) ==
    LET sign == CASE raw.label = "positive" -> 1
                  [] raw.label = "negative" -> -1
                  [] OTHER -> 0
    IN  [score |-> RMul(<<sign, 1>>, raw.score),
         label |-> raw.label,
         confidence |-> raw.score,
         error |-> FALSE]

\* _analyze_with_vader, given polarity_scores(text)['compound']
AnalyzeWithVader(compound) ==
    [score |-> compound,
     label |-> ScoreToLabel(compound),
     confidence |-> RAbs(compound),
     error |-> FALSE]

\* _analyze_with_textblob, given blob.sentiment.polarity
AnalyzeWithTextblob(polarity) ==
    [score |-> polarity,
     label |-> ScoreToLabel(polarity),
     confidence |-> RAbs(polarity),
     error |-> FALSE]

\* _analyze_with_financial_lexicon, given the summed term scores and the word count
AnalyzeWithFinancialLexicon(total_score, word_count) ==
    LET raw == IF word_count > 0
               THEN RDiv(total_score, <<IF word_count > 1 THEN word_count ELSE 1, 1>>)
               ELSE Zero
        normalized_score == RMax(<<-1, 1>>, RMin(One, raw))
    IN  [score |-> normalized_score,
         label |-> ScoreToLabel(normalized_score),
         confidence |-> RMin(RMul(RAbs(normalized_score), <<2, 1>>), One),
         error |-> FALSE]

\* the provider ids of model_results, in insertion order
RECURSIVE Present(_, _)
Present(order, model_results) ==
    IF order = <<>> THEN <<>>
    ELSE (IF Head(order) \in DOMAIN model_results THEN <<Head(order)>> ELSE <<>>)
            \o Present(Tail(order), model_results)

RECURSIVE RSum(_)
RSum(s) ==
    IF s = <<>> THEN Zero ELSE RAdd(Head(s), RSum(Tail(s)))

\* np.mean of a non-empty list
Mean(s) ==
    RDiv(RSum(s), <<Len(s), 1>>)

\* np.std: sqrt(mean(abs(x - x.mean()) ** 2)); the radicand
Variance(s) ==
    LET mu == Mean(s)
    IN  Mean([i \in 1..Len(s) |-> RMul(RSub(s[i], mu), RSub(s[i], mu))])

\* a provider that ignores the 'error' marker
CountedIgnoringError(name, result) ==
    name \in DOMAIN model_weights

\* _calculate_ensemble_sentiment: the test a result passes to enter the ensemble
Counted(name, result) ==
    ~result.error /\ name \in DOMAIN model_weights

\* full agreement reported when there is nothing to compare
SingleModelAgreementOne ==
    [base |-> One, rad |-> Zero]

\* _calculate_model_agreement: `return 0.5` for fewer than two scores.
\* An agreement [base, rad] stands for the number base - sqrt(rad) / 2.
SingleModelAgreement ==
    [base |-> Rat(1, 2), rad |-> Zero]

\* the sample standard deviation (ddof = 1) in place of np.std's population one
SpreadSample(s) ==
    RDiv(RMul(Variance(s), <<Len(s), 1>>), <<Len(s) - 1, 1>>)

\* _calculate_model_agreement: the radicand of std_dev = np.std(scores)
Spread(s) ==
    Variance(s)

\* an agreement that takes the 0.0 of a failed provider for a score
AgreeingAny(result) ==
    TRUE

\* _calculate_model_agreement: `if 'error' not in result`
Agreeing(result) ==
    ~result.error

\* _calculate_model_agreement
CalculateModelAgreement(model_results) ==
    LET names == Present(ModelOrder, model_results)
        ok == SelectSeq(names, LAMBDA m : Agreeing(model_results[m]))
        scores == [i \in 1..Len(ok) |-> model_results[ok[i]].score]
    IN  IF Len(scores) < 2
        THEN SingleModelAgreement
        ELSE IF RLt(<<4, 1>>, Spread(scores))
             THEN [base |-> Zero, rad |-> Zero]
             ELSE [base |-> One, rad |-> Spread(scores)]

\* a combiner that reports the plain mean of the scores
FinalScoreUnweighted(weighted_score, total_weight, n) ==
    IF n > 0 THEN RDiv(weighted_score, <<n, 1>>) ELSE Zero

\* _calculate_ensemble_sentiment: final_score from the two running sums
FinalScore(weighted_score, total_weight, n) ==
    IF RLt(Zero, total_weight) THEN RDiv(weighted_score, total_weight) ELSE Zero

\* _calculate_ensemble_sentiment: avg_confidence
AvgConfidence(confidence_scores) ==
    IF confidence_scores # <<>> THEN Mean(confidence_scores) ELSE Zero

\* _calculate_ensemble_sentiment
CalculateEnsembleSentiment(model_results) ==
    LET names == Present(ModelOrder, model_results)
        used == SelectSeq(names, LAMBDA m : Counted(m, model_results[m]))
        weighted_score ==
            RSum([i \in 1..Len(used) |->
                    RMul(model_results[used[i]].score, model_weights[used[i]])])
        total_weight == RSum([i \in 1..Len(used) |-> model_weights[used[i]]])
        confidence_scores == [i \in 1..Len(used) |-> model_results[used[i]].confidence]
        final_score == FinalScore(weighted_score, total_weight, Len(used))
    IN  [score |-> final_score,
         label |-> ScoreToLabel(final_score),
         confidence |-> AvgConfidence(confidence_scores),
         model_agreement |-> CalculateModelAgreement(model_results)]

----------------------------------------------------------------------------
(* ResponseFormatter: one item *)

SourcesInTable == {"reddit", "finviz", "news", "yahoo", "twitter", "unknown"}

source_weights ==
    [src \in SourcesInTable |->
        CASE src = "reddit" -> Rat(70, 100)
          [] src = "finviz" -> Rat(90, 100)
          [] src = "news" -> Rat(85, 100)
          [] src = "yahoo" -> Rat(80, 100)
          [] src = "twitter" -> Rat(60, 100)
          [] src = "unknown" -> Rat(50, 100)]

\* self.source_weights.get(source, 0.5)
SourceWeight(src) ==
    IF src \in DOMAIN source_weights THEN source_weights[src] ELSE Rat(1, 2)

\* a length factor that keeps falling above 200 characters, without the 0.8 floor
LengthFactorNoFloor(text_length) ==
    IF 50 <= text_length /\ text_length <= 200 THEN One
    ELSE IF text_length < 50
         THEN RAdd(Rat(7, 10), RMul(Rat(text_length, 50), Rat(3, 10)))
         ELSE RSub(One, Rat(text_length - 200, 1000))

\* _calculate_enhanced_confidence: length_factor
LengthFactor(text_length) ==
    IF 50 <= text_length /\ text_length <= 200 THEN One
    ELSE IF text_length < 50
         THEN RAdd(Rat(7, 10), RMul(Rat(text_length, 50), Rat(3, 10)))
         ELSE RMax(Rat(8, 10), RSub(One, Rat(text_length - 200, 1000)))

\* sum(len(v) if isinstance(v, list) else 0 for v in entities.values())
EntityCount(entities) ==
    entities.tickers + entities.prices + entities.organizations + entities.persons

\* an enhancer that returns the product without the final min
CalculateEnhancedConfidenceUnclipped(base_confidence, src, text_length, entities) ==
    LET c1 == RMul(base_confidence, RAdd(Rat(1, 2), RMul(SourceWeight(src), Rat(1, 2))))
        c2 == RMul(c1, LengthFactor(text_length))
        entity_count == EntityCount(entities)
    IN  IF entity_count > 0
        THEN RMul(c2, RMin(Rat(12, 10), RAdd(One, Rat(entity_count * 5, 100))))
        ELSE c2

\* _calculate_enhanced_confidence
CalculateEnhancedConfidence(base_confidence, src, text_length, entities) ==
    LET c1 == RMul(base_confidence, RAdd(Rat(1, 2), RMul(SourceWeight(src), Rat(1, 2))))
        c2 == RMul(c1, LengthFactor(text_length))
        entity_count == EntityCount(entities)
        c3 == IF entity_count > 0
              THEN RMul(c2, RMin(Rat(12, 10), RAdd(One, Rat(entity_count * 5, 100))))
              ELSE c2
    IN  RMin(c3, One)

\* _calculate_sentiment_strength
CalculateSentimentStrength(score) ==
    LET abs_score == RAbs(score)
    IN  IF RLe(Rat(7, 10), abs_score) THEN "strong"
        ELSE IF RLe(Rat(4, 10), abs_score) THEN "moderate"
        ELSE IF RLe(Rat(1, 10), abs_score) THEN "weak"
        ELSE "neutral"

\* _get_confidence_quality
GetConfidenceQuality(confidence) ==
    IF RLe(Rat(8, 10), confidence) THEN "high"
    ELSE IF RLe(Rat(6, 10), confidence) THEN "medium"
    ELSE IF RLe(Rat(4, 10), confidence) THEN "low"
    ELSE "very_low"

\* round(x, 3): the nearest multiple of 1/1000, an exact tie going to the even one;
\* the digits are taken one at a time so that no product leaves 32 bits
Round3(x) ==
    LET n == Abs(x[1])
        d == x[2]
        i0 == n \div d
        r0 == n % d
        d1 == (r0 * 10) \div d
        r1 == (r0 * 10) % d
        d2 == (r1 * 10) \div d
        r2 == (r1 * 10) % d
        d3 == (r2 * 10) \div d
        r3 == (r2 * 10) % d
        q == i0 * 1000 + d1 * 100 + d2 * 10 + d3
        up == \/ 2 * r3 > d
              \/ 2 * r3 = d /\ q % 2 = 1
        m == IF up THEN q + 1 ELSE q
    IN  Rat((IF x[1] < 0 THEN -1 ELSE 1) * m, 1000)

\* format_single_result: the 'sentiment' block
SentimentBlock(ens, enhanced) ==
    [score |-> Round3(ens.score),
     label |-> ens.label,
     confidence |-> Round3(enhanced),
     strength |-> CalculateSentimentStrength(ens.score),
     quality |-> GetConfidenceQuality(enhanced)]

----------------------------------------------------------------------------
(* One item through analyze_single and format_single_result *)

FinbertOutputs ==
    {[label |-> l, score |-> Tenths(9)] : l \in {"positive", "negative", "neutral"}}
Compounds == {Tenths(-10), Tenths(-1), Tenths(1), Tenths(10)}
LexiconInputs ==
    {[total_score |-> Zero, word_count |-> 0],
     [total_score |-> Tenths(20), word_count |-> 1],
     [total_score |-> Tenths(-15), word_count |-> 5],
     [total_score |-> Tenths(5), word_count |-> 5]}
Sources == SourcesInTable \cup {"mixed"}
TextLengths == {0, 49, 50, 200, 201, 1500}
\* the lengths of the four entity lists ({} counts as four empty lists)
EntityDicts ==
    {[tickers |-> 0, prices |-> 0, organizations |-> 0, persons |-> 0],
     [tickers |-> 1, prices |-> 0, organizations |-> 0, persons |-> 0],
     [tickers |-> 2, prices |-> 1, organizations |-> 1, persons |-> 0],
     [tickers |-> 2, prices |-> 1, organizations |-> 1, persons |-> 1]}

ItemInit ==
    /\ pc = "finbert"
    /\ models = EmptyDict
    /\ ensemble = EmptyDict
    /\ fmt_in = EmptyDict
    /\ enhanced_confidence = Zero
    /\ sentiment = EmptyDict

\* analyze_single: the FinBERT step; `use` is `self.finbert_pipeline and
\* options.get('use_finbert', True)`, `raises` an exception inside the adapter
RunFinbert ==
    /\ pc = "finbert"
    /\ \/ UNCHANGED models
       \/ models' = With(models, "finbert", ErrorResult)
       \/ \E raw \in FinbertOutputs :
             models' = With(models, "finbert", AnalyzeWithFinbert(raw))
    /\ pc' = "vader"
    /\ UNCHANGED <<ensemble, fmt_in, enhanced_confidence, sentiment>>
    /\ UNCHANGED <<cacheVars, keyVars, flowVars>>

\* analyze_single: the VADER step
RunVader ==
    /\ pc = "vader"
    /\ \/ UNCHANGED models
       \/ models' = With(models, "vader", ErrorResult)
       \/ \E compound \in Compounds :
             models' = With(models, "vader", AnalyzeWithVader(compound))
    /\ pc' = "textblob"
    /\ UNCHANGED <<ensemble, fmt_in, enhanced_confidence, sentiment>>
    /\ UNCHANGED <<cacheVars, keyVars, flowVars>>

\* analyze_single: the TextBlob step, always taken
RunTextblob ==
    /\ pc = "textblob"
    /\ \/ models' = With(models, "textblob", ErrorResult)
       \/ \E polarity \in Compounds :
             models' = With(models, "textblob", AnalyzeWithTextblob(polarity))
    /\ pc' = "financial_lexicon"
    /\ UNCHANGED <<ensemble, fmt_in, enhanced_confidence, sentiment>>
    /\ UNCHANGED <<cacheVars, keyVars, flowVars>>

\* analyze_single: the lexicon step, always taken
RunFinancialLexicon ==
    /\ pc = "financial_lexicon"
    /\ \/ models' = With(models, "financial_lexicon", ErrorResult)
       \/ \E x \in LexiconInputs :
             models' = With(models, "financial_lexicon",
                            AnalyzeWithFinancialLexicon(x.total_score, x.word_count))
    /\ pc' = "ensemble"
    /\ UNCHANGED <<ensemble, fmt_in, enhanced_confidence, sentiment>>
    /\ UNCHANGED <<cacheVars, keyVars, flowVars>>

\* analyze_single: results['ensemble'] = self._calculate_ensemble_sentiment(...)
CalculateEnsemble ==
    /\ pc = "ensemble"
    /\ ensemble' = CalculateEnsembleSentiment(models)
    /\ pc' = "format"
    /\ UNCHANGED <<models, fmt_in, enhanced_confidence, sentiment>>
    /\ UNCHANGED <<cacheVars, keyVars, flowVars>>

\* format_single_result for the item, with the request's source, the length of
\* its original text and the entities analyze_single extracted
FormatSingleResult ==
    /\ pc = "format"
    /\ \E src \in Sources, text_length \in TextLengths, entities \in EntityDicts :
        LET enhanced == CalculateEnhancedConfidence(ensemble.confidence, src,
                                                    text_length, entities)
        IN  /\ fmt_in' = [source |-> src, text_length |-> text_length,
                          entities |-> entities]
            /\ enhanced_confidence' = enhanced
            /\ sentiment' = SentimentBlock(ensemble, enhanced)
    /\ pc' = "done"
    /\ UNCHANGED <<models, ensemble>>
    /\ UNCHANGED <<cacheVars, keyVars, flowVars>>

InitItem ==
    /\ CacheIdle
    /\ KeyIdle
    /\ ItemInit
    /\ FlowIdle

NextItem ==
    \/ RunFinbert
    \/ RunVader
    \/ RunTextblob
    \/ RunFinancialLexicon
    \/ CalculateEnsemble
    \/ FormatSingleResult

SpecItem == InitItem /\ [][NextItem]_vars

----------------------------------------------------------------------------
(* _calculate_ensemble_sentiment on any dict of provider results *)

AllNames == ModelNames \cup {"custom"}
FnScores == {Tenths(-10), Tenths(1), Tenths(10)}
FnConfidences == {Tenths(2), Tenths(10)}
FnResults ==
    {[score |-> sc, label |-> ScoreToLabel(sc), confidence |-> c, error |-> FALSE] :
        sc \in FnScores, c \in FnConfidences} \cup {ErrorResult}
FnDicts == UNION {[D -> FnResults] : D \in SUBSET AllNames}

InitEnsemble ==
    /\ CacheIdle
    /\ KeyIdle
    /\ pc = "ensemble"
    /\ models \in FnDicts
    /\ ensemble = EmptyDict
    /\ fmt_in = EmptyDict
    /\ enhanced_confidence = Zero
    /\ sentiment = EmptyDict
    /\ FlowIdle

NextEnsemble ==
    CalculateEnsemble

SpecEnsemble == InitEnsemble /\ [][NextEnsemble]_vars

----------------------------------------------------------------------------
(* Claims about the ensemble and the enhanced confidence *)

\* the sum of f over the set S, f a function to rationals
RECURSIVE SumOver(_, _)
SumOver(f, S) ==
    IF S = {} THEN Zero
    ELSE LET x == CHOOSE y \in S : TRUE
         IN  RAdd(f[x], SumOver(f, S \ {x}))

\* the providers of the item that did not fail
Successful == {m \in DOMAIN models : ~models[m].error}

\* the weight table as the specification states it
StatedWeights ==
    [finbert |-> Rat(4, 10), vader |-> Rat(3, 10), textblob |-> Rat(2, 10),
     financial_lexicon |-> Rat(1, 10)]

Ensembled == pc \in {"format", "done"}

\* the number an agreement [base, rad] stands for, base - sqrt(rad) / 2, is r
AgreementIs(a, r) ==
    /\ RLe(r, a.base)
    /\ a.rad = RMul(<<4, 1>>, RMul(RSub(a.base, r), RSub(a.base, r)))

\* C4: when every provider result is a failure, or there is no provider result,
\* the verdict is exactly score 0.0, label neutral, confidence 0.0, agreement 0.5.
C4_ZeroProviderDefault ==
    (Ensembled /\ Successful = {})
        => /\ ensemble.score = Zero
           /\ ensemble.label = "neutral"
           /\ ensemble.confidence = Zero
           /\ AgreementIs(ensemble.model_agreement, Rat(1, 2))

\* two or more providers ran, all of them failed, and the verdict was computed
C4_Witness ==
    /\ Ensembled
    /\ Cardinality(DOMAIN models) >= 2
    /\ Successful = {}
    /\ ensemble.label = "neutral"

\* C5: the ensemble score is sum(score_i * weight_i) / sum(weight_i) over exactly
\* the successful providers whose id is in the weight table; a successful provider
\* outside the table and every failed provider is left out of both sums; the
\* score is 0.0 when the total weight is zero.
C5_WeightedMean ==
    Ensembled =>
        LET used == Successful \cap DOMAIN StatedWeights
            num == SumOver([m \in used |-> RMul(models[m].score, StatedWeights[m])], used)
            den == SumOver([m \in used |-> StatedWeights[m]], used)
        IN  IF den = Zero
            THEN ensemble.score = Zero
            ELSE RMul(ensemble.score, den) = num

\* a provider outside the table succeeded, one in the table failed, two in the
\* table succeeded with different scores, and the score was computed
C5_Witness ==
    /\ Ensembled
    /\ "custom" \in Successful
    /\ \E m \in DOMAIN models \cap ModelNames : models[m].error
    /\ \E m, n \in Successful \cap ModelNames : models[m].score # models[n].score
    /\ ensemble.score # Zero

\* the label the deadband gives a score
DeadbandLabel(score) ==
    CASE score[1] * 10 > score[2] -> "bullish"
      [] score[1] * 10 < -score[2] -> "bearish"
      [] OTHER -> "neutral"

\* C6: everywhere a score becomes a label (each provider's own label, the
\* ensemble verdict) the label is bullish above 0.1, bearish below -0.1 and
\* neutral otherwise, and is one of bullish, bearish, neutral.
C6_LabelDeadband ==
    /\ \A m \in DOMAIN models :
          /\ models[m].label \in {"bullish", "bearish", "neutral"}
          /\ models[m].label = DeadbandLabel(models[m].score)
    /\ Ensembled => ensemble.label = DeadbandLabel(ensemble.score)

\* C7: the ensemble confidence is the arithmetic mean of the confidences of all
\* the providers of the item that did not fail, and 0.0 when none succeeded.
C7_MeanConfidence ==
    Ensembled =>
        LET total == SumOver([m \in Successful |-> models[m].confidence], Successful)
        IN  IF Successful = {}
            THEN ensemble.confidence = Zero
            ELSE RMul(ensemble.confidence, <<Cardinality(Successful), 1>>) = total

\* one provider failed, two succeeded with different confidences, and the
\* ensemble confidence was computed
C7_Witness ==
    /\ Ensembled
    /\ \E m \in DOMAIN models : models[m].error
    /\ \E m, n \in Successful : models[m].confidence # models[n].confidence
    /\ ensemble.confidence # Zero

\* C8: with two or more successful scores the agreement is
\* max(0, 1 - stdDev / 2) for the population standard deviation of the
\* successful scores, with fewer it is 0.5, and it always lies in [0, 1].
C8_Agreement ==
    Ensembled =>
        LET n == Cardinality(Successful)
            sum == SumOver([m \in Successful |-> models[m].score], Successful)
            squares == SumOver([m \in Successful |->
                                  RMul(models[m].score, models[m].score)], Successful)
            \* the population variance, E[x^2] - E[x]^2
            variance == RSub(RDiv(squares, <<n, 1>>),
                             RMul(RDiv(sum, <<n, 1>>), RDiv(sum, <<n, 1>>)))
            a == ensemble.model_agreement
        IN  /\ IF n < 2
               THEN AgreementIs(a, Rat(1, 2))
               ELSE IF RLt(<<4, 1>>, variance)
                    THEN AgreementIs(a, Zero)
                    ELSE a.base = One /\ a.rad = variance
            \* 0 <= base - sqrt(rad) / 2 <= 1
            /\ RLe(Zero, a.rad)
            /\ RLe(Zero, a.base) /\ RLe(a.base, One)
            /\ RLe(a.rad, RMul(<<4, 1>>, RMul(a.base, a.base)))

\* three providers succeeded with scores that are not all equal, one failed,
\* and the agreement computed is below 1
C8_Witness ==
    /\ Ensembled
    /\ Cardinality(Successful) >= 3
    /\ \E m \in DOMAIN models : models[m].error
    /\ ensemble.model_agreement.base = One
    /\ RLt(Zero, ensemble.model_agreement.rad)

InUnit(x) == RLe(Zero, x) /\ RLe(x, One)

\* C9: for every combination of provider outcomes, source, text length and
\* entity count, the raw ensemble confidence is in [0,1] and the enhanced
\* confidence of the item, as computed and as reported, is in [0,1].
C9_ConfidenceBounds ==
    /\ Ensembled => InUnit(ensemble.confidence)
    /\ pc = "done" => InUnit(enhanced_confidence) /\ InUnit(sentiment.confidence)

\* the source factor, the length factor and the entity boost as the
\* specification states them
StatedF1(src) ==
    RAdd(Rat(1, 2), RDiv(SourceWeight(src), <<2, 1>>))
StatedF2(len) ==
    IF len < 50 THEN Rat(350 + 3 * len, 500)
    ELSE IF len <= 200 THEN One
    ELSE RMax(Rat(4, 5), Rat(1200 - len, 1000))
StatedF3(count) ==
    IF count > 0 THEN RMin(Rat(6, 5), Rat(20 + count, 20)) ELSE One

\* an item whose product of base and factors exceeds 1 was reported with
\* confidence exactly 1, after one of its providers had failed
C9_Witness ==
    /\ pc = "done"
    /\ \E m \in DOMAIN models : models[m].error
    /\ RLt(One, RMul(ensemble.confidence,
                     RMul(StatedF1(fmt_in.source),
                          StatedF3(EntityCount(fmt_in.entities)))))
    /\ enhanced_confidence = One
    /\ sentiment.confidence = One

\* C10: enhanced = min(1.0, base * f1 * f2 * f3), f1 = 0.5 + reliability * 0.5
\* (0.5 for a source outside the table, so f1 is in [0.5, 1.0]), f2 = 1.0 for a
\* length in [50, 200], 0.7 + (length / 50) * 0.3 below 50 and
\* max(0.8, 1.0 - (length - 200) / 1000) above 200, f3 = min(1.2, 1.0 +
\* entityCount * 0.05) when entityCount > 0 and 1.0 otherwise; nothing is
\* clipped before the final min.
C10_EnhancedFormula ==
    pc = "done" =>
        LET f1 == StatedF1(fmt_in.source)
            f2 == StatedF2(fmt_in.text_length)
            f3 == StatedF3(EntityCount(fmt_in.entities))
        IN  /\ enhanced_confidence =
                  RMin(One, RMul(ensemble.confidence, RMul(f1, RMul(f2, f3))))
            /\ RLe(Rat(1, 2), f1) /\ RLe(f1, One)
            /\ fmt_in.source \notin SourcesInTable => f1 = Rat(3, 4)

\* a long text (factor floored at 0.8) from a source outside the table with five
\* entities (boost capped at 1.2) was enhanced to a confidence strictly
\* between 0 and 1
C10_Witness ==
    /\ pc = "done"
    /\ fmt_in.source = "mixed"
    /\ fmt_in.text_length = 1500
    /\ EntityCount(fmt_in.entities) = 5
    /\ RLt(Zero, enhanced_confidence)
    /\ RLt(enhanced_confidence, One)

----------------------------------------------------------------------------
(* ResponseFormatter: the whole response, single and batch *)

\* _format_model_results
FormatModelResults(model_results) ==
    [m \in DOMAIN model_results |->
        IF ~model_results[m].error
        THEN [score |-> Round3(model_results[m].score),
              label |-> model_results[m].label,
              confidence |-> Round3(model_results[m].confidence)]
        ELSE [error |-> "error", available |-> FALSE]]

\* _format_entities: the count, the lists being left out
FormatEntities(entities) ==
    [entity_count |-> EntityCount(entities)]

\* format_single_result; the text is given by its length and the rounded
\* model_agreement of the 'analysis' block is left out
format_single_result(analysis_result, text_length, ticker, src) ==
    LET enhanced == CalculateEnhancedConfidence(analysis_result.ensemble.confidence,
                                                src, text_length,
                                                analysis_result.entities)
    IN  [sentiment |-> SentimentBlock(analysis_result.ensemble, enhanced),
         analysis |-> [text_length |-> text_length,
                       source |-> src,
                       source_reliability |-> SourceWeight(src)],
         models |-> FormatModelResults(analysis_result.models),
         entities |-> FormatEntities(analysis_result.entities),
         metadata |-> [ticker |-> ticker, enhanced_analysis |-> TRUE]]

Labels == {"bullish", "bearish", "neutral"}
Qualities == {"high", "medium", "low", "very_low"}

\* a distribution that puts every item in the bucket of the batch mean
DistributionFromMean(scores) ==
    [l \in Labels |-> IF ScoreToLabel(Mean(scores)) = l THEN Len(scores) ELSE 0]

\* _calculate_aggregate_stats: `for score in scores: distribution[label] += 1`
Distribution(scores) ==
    [l \in Labels |-> Cardinality({i \in 1..Len(scores) : ScoreToLabel(scores[i]) = l})]

\* _calculate_aggregate_stats: `for confidence in confidences: quality_dist[...] += 1`
QualityDist(confidences) ==
    [q \in Qualities |->
        Cardinality({i \in 1..Len(confidences) : GetConfidenceQuality(confidences[i]) = q})]

\* _calculate_aggregate_stats; the two standard deviations by their radicands
CalculateAggregateStats(scores, confidences) ==
    IF scores = <<>>
    THEN [avg_score |-> Zero,
          avg_confidence |-> Zero,
          distribution |-> [l \in Labels |-> 0],
          quality_dist |-> [q \in Qualities |-> 0]]
    ELSE [avg_score |-> Mean(scores),
          avg_confidence |-> Mean(confidences),
          distribution |-> Distribution(scores),
          quality_dist |-> QualityDist(confidences),
          score_std |-> Variance(scores),
          confidence_std |-> Variance(confidences)]

\* format_batch_results: `tickers[i] if tickers and i < len(tickers) else None`
TickerAt(tickers_, i) ==
    IF i <= Len(tickers_) THEN tickers_[i] ELSE NoneTicker

\* format_batch_results: `original_texts[i] if i < len(original_texts) else ""`
TextLengthAt(text_lengths, i) ==
    IF i <= Len(text_lengths) THEN text_lengths[i] ELSE 0

\* format_batch_results
format_batch_results(analysis_results, text_lengths, tickers_, src) ==
    LET formatted_results ==
            [i \in 1..Len(analysis_results) |->
                format_single_result(analysis_results[i], TextLengthAt(text_lengths, i),
                                     TickerAt(tickers_, i), src)]
        scores == [i \in 1..Len(analysis_results) |-> formatted_results[i].sentiment.score]
        confidences ==
            [i \in 1..Len(analysis_results) |-> formatted_results[i].sentiment.confidence]
        aggregate_stats == CalculateAggregateStats(scores, confidences)
    IN  [results |-> formatted_results,
         summary |-> [total_texts |-> Len(analysis_results),
                      average_sentiment |->
                          [score |-> Round3(aggregate_stats.avg_score),
                           label |-> ScoreToLabel(aggregate_stats.avg_score),
                           confidence |-> Round3(aggregate_stats.avg_confidence)],
                      sentiment_distribution |-> aggregate_stats.distribution,
                      quality_distribution |-> aggregate_stats.quality_dist,
                      source |-> src],
         metadata |-> [batch_size |-> Len(analysis_results),
                       enhanced_analysis |-> TRUE,
                       source_reliability |-> SourceWeight(src)]]

\* the verdicts analyze_batch may hand to the formatter
BatchScores == {Rat(-1, 2), Rat(1, 10), Rat(1004, 10000), Rat(1, 2)}
BatchConfidences == {Rat(3, 10), Rat(8421, 10000), Rat(1, 1)}
BatchSources == {"finviz", "mixed"}
NoEntities == [tickers |-> 0, prices |-> 0, organizations |-> 0, persons |-> 0]
BatchResults ==
    {[ensemble |-> [score |-> sc, label |-> ScoreToLabel(sc), confidence |-> c,
                    model_agreement |-> SingleModelAgreement],
      models |-> EmptyDict,
      entities |-> NoEntities] : sc \in BatchScores, c \in BatchConfidences}

BatchInit ==
    /\ batch_in \in
          {[analysis_results |-> rs,
            text_lengths |-> [i \in 1..Len(rs) |-> 100],
            tickers |-> ts,
            source |-> src] :
              rs \in SeqsUpTo(BatchResults, 0, MaxBatch),
              ts \in SeqsUpTo({NoneTicker, 1}, 0, MaxBatch),
              src \in BatchSources}
    /\ batch_out = EmptyDict
    /\ batch_stats = EmptyDict

\* response_formatter.format_batch_results(results, texts, tickers, source)
FormatBatchResults ==
    /\ batch_out = EmptyDict
    /\ batch_out' = format_batch_results(batch_in.analysis_results, batch_in.text_lengths,
                                         batch_in.tickers, batch_in.source)
    /\ batch_stats' =
          CalculateAggregateStats(
              [i \in 1..Len(batch_out'.results) |-> batch_out'.results[i].sentiment.score],
              [i \in 1..Len(batch_out'.results) |-> batch_out'.results[i].sentiment.confidence])
    /\ UNCHANGED <<batch_in, reqVars, thrVars, textVars>>
    /\ UNCHANGED <<cacheVars, keyVars, itemVars>>

InitBatch ==
    /\ CacheIdle
    /\ KeyIdle
    /\ ItemIdle
    /\ ReqIdle
    /\ ThrIdle
    /\ BatchInit
    /\ TextIdle

NextBatch ==
    FormatBatchResults

SpecBatch == InitBatch /\ [][NextBatch]_vars

\* the quality class of a confidence, by the thresholds 0.8, 0.6 and 0.4
StatedQuality(c) ==
    CASE c[1] * 10 >= 8 * c[2] -> "high"
      [] c[1] * 10 >= 6 * c[2] -> "medium"
      [] c[1] * 10 >= 4 * c[2] -> "low"
      [] OTHER -> "very_low"

Formatted == batch_out # EmptyDict

\* C20: in the summary of a batch of N items the label distribution and the
\* quality distribution count, for each bucket, the items whose own score and
\* own enhanced confidence (as the item reports them) fall in it under the
\* label rule and the quality rule; every item is in exactly one bucket of
\* each, and each distribution sums to N.
C20_Distributions ==
    Formatted =>
        LET items == batch_out.results
            N == Len(batch_in.analysis_results)
            ld == batch_out.summary.sentiment_distribution
            qd == batch_out.summary.quality_distribution
        IN  /\ Len(items) = N
            /\ DOMAIN ld = Labels /\ DOMAIN qd = Qualities
            /\ \A l \in Labels :
                  ld[l] = Cardinality({i \in 1..N :
                                         DeadbandLabel(items[i].sentiment.score) = l})
            /\ \A q \in Qualities :
                  qd[q] = Cardinality({i \in 1..N :
                                         StatedQuality(items[i].sentiment.confidence) = q})
            /\ ld["bullish"] + ld["bearish"] + ld["neutral"] = N
            /\ qd["high"] + qd["medium"] + qd["low"] + qd["very_low"] = N

\* a batch of two items, one bullish and one bearish, one of high and one of
\* very low quality, whose mean score is in the neutral bucket that holds no item
C20_Witness ==
    /\ Formatted
    /\ Len(batch_out.results) = 2
    /\ batch_out.summary.sentiment_distribution["bullish"] = 1
    /\ batch_out.summary.sentiment_distribution["bearish"] = 1
    /\ batch_out.summary.average_sentiment.label = "neutral"
    /\ batch_out.summary.quality_distribution["high"] = 1
    /\ batch_out.summary.quality_distribution["very_low"] = 1

\* C21: the summary of an empty batch has mean score 0, mean confidence 0,
\* both standard deviations 0 and the three label buckets and the four
\* quality buckets present with count 0; the summary of every batch has all
\* seven buckets, a bucket that holds no item being present with count 0.
C21_EmptyBatchSummary ==
    Formatted =>
        /\ DOMAIN batch_out.summary.sentiment_distribution = Labels
        /\ DOMAIN batch_out.summary.quality_distribution = Qualities
        /\ DOMAIN batch_stats.distribution = Labels
        /\ DOMAIN batch_stats.quality_dist = Qualities
        /\ batch_in.analysis_results = <<>> =>
              /\ batch_out.summary.average_sentiment.score = Zero
              /\ batch_out.summary.average_sentiment.confidence = Zero
              /\ \A l \in Labels : batch_out.summary.sentiment_distribution[l] = 0
              /\ \A q \in Qualities : batch_out.summary.quality_distribution[q] = 0
              /\ batch_stats.avg_score = Zero
              /\ batch_stats.avg_confidence = Zero
              /\ "score_std" \in DOMAIN batch_stats
              /\ "confidence_std" \in DOMAIN batch_stats
              /\ batch_stats.score_std = Zero
              /\ batch_stats.confidence_std = Zero

\* C30: in every batch response the sentiment_distribution count of a label
\* is the number of results whose own sentiment.label is that label, and the
\* quality_distribution count of a class is the number of results whose own
\* sentiment.quality is that class, also for scores and confidences within
\* rounding distance of a threshold.
C30_SummaryAgreesWithItems ==
    Formatted =>
        LET items == batch_out.results
            ld == batch_out.summary.sentiment_distribution
            qd == batch_out.summary.quality_distribution
        IN  /\ \A l \in Labels :
                  ld[l] = Cardinality({i \in 1..Len(items) : items[i].sentiment.label = l})
            /\ \A q \in Qualities :
                  qd[q] = Cardinality({i \in 1..Len(items) : items[i].sentiment.quality = q})

----------------------------------------------------------------------------
(* app.py: /analyze and /analyze/single, one request at a time *)

MaxRequests == 2
\* the text "" of a request; the other texts are 1 and 2
EmptyText == 0
RequestTexts == {1, 2}
RequestTickers == {NoneTicker, 1}
RequestJumps == {300, 1800}

\* the JSON bodies posted to /analyze/single
SinglePayloads ==
    {[text |-> t, ticker |-> k] : t \in {EmptyText, 1}, k \in RequestTickers}
        \cup {[ticker |-> 1]}
\* the JSON bodies posted to /analyze
\* the JSON bodies posted to /analyze: distinct texts, and a tickers list that is
\* absent, shorter than the texts or as long, with null for an item without one
BatchPayloads ==
    {[texts |-> ts, tickers |-> ks] :
        ts \in {t \in SeqsUpTo(RequestTexts, 0, MaxBatch) :
                    \A i, j \in 1..Len(t) : i # j => t[i] # t[j]},
        ks \in SeqsUpTo(RequestTickers, 1, MaxBatch)}
        \cup {[texts |-> ts] : ts \in SeqsUpTo(RequestTexts, 1, 1)}
        \cup {[tickers |-> <<1>>]}

\* len(text) of the three texts
TextLength(text) ==
    CASE text = 1 -> 60
      [] text = 2 -> 30
      [] OTHER -> 0

\* what the providers and the entity extractor return for each text; the
\* FinBERT pipeline raises on text 2
ModelsOf(text) ==
    CASE text = 1 ->
            [finbert |-> AnalyzeWithFinbert([label |-> "positive", score |-> Tenths(9)]),
             vader |-> AnalyzeWithVader(Tenths(10)),
             textblob |-> AnalyzeWithTextblob(Tenths(1)),
             financial_lexicon |-> AnalyzeWithFinancialLexicon(Tenths(5), 5)]
      [] text = 2 ->
            [finbert |-> ErrorResult,
             vader |-> AnalyzeWithVader(Tenths(-10)),
             textblob |-> AnalyzeWithTextblob(Tenths(-1)),
             financial_lexicon |-> AnalyzeWithFinancialLexicon(Tenths(-15), 5)]
      [] OTHER ->
            [finbert |-> AnalyzeWithFinbert([label |-> "neutral", score |-> Tenths(9)]),
             vader |-> AnalyzeWithVader(Zero),
             textblob |-> AnalyzeWithTextblob(Zero),
             financial_lexicon |-> AnalyzeWithFinancialLexicon(Zero, 0)]

EntitiesOf(text) ==
    [tickers |-> IF text = 1 THEN 1 ELSE 0, prices |-> 0, organizations |-> 0,
     persons |-> 0]

\* analyze_single, the four provider steps and the ensemble step in one
analyze_single(text, ticker, src) ==
    [text |-> text,
     ticker |-> ticker,
     source |-> src,
     models |-> ModelsOf(text),
     ensemble |-> CalculateEnsembleSentiment(ModelsOf(text)),
     entities |-> EntitiesOf(text)]

\* a handler that takes every lookup for a miss
TruthyNever(ret) ==
    FALSE

\* `if cached_result:` : None and the empty dict are false
Truthy(ret) ==
    ret.kind = "value" /\ ret.value # EmptyDict

\* data.get(field, default)
Get(d, field, default) ==
    IF field \in DOMAIN d THEN d[field] ELSE default

Append2(s, e) == s \o <<e>>

ReqInit ==
    /\ data = EmptyDict
    /\ handler = [pc |-> "idle"]
    /\ trace = <<>>
    /\ response = NoResponse
    /\ computed = EmptyDict
    /\ served = 0

\* a request arrives: `data = request.get_json()`
Receive ==
    /\ handler.pc \in {"idle", "done"}
    /\ served < MaxRequests
    /\ \/ \E d \in SinglePayloads :
             /\ data' = d
             /\ handler' = [pc |-> "validate", endpoint |-> "single"]
       \/ \E d \in BatchPayloads :
             /\ data' = d
             /\ handler' = [pc |-> "validate", endpoint |-> "batch"]
    /\ trace' = <<>>
    /\ response' = NoResponse
    /\ served' = served + 1
    /\ UNCHANGED <<computed, thrVars, batchVars, textVars>>
    /\ UNCHANGED <<cacheVars, keyVars, itemVars>>

\* `if not data or 'text' not in data: return ..., 400`, then the four fields
Validate ==
    LET required == IF handler.endpoint = "single" THEN "text" ELSE "texts"
    IN  /\ handler.pc = "validate"
        /\ IF data = EmptyDict \/ required \notin DOMAIN data
           THEN /\ response' = [status |-> 400, body |-> [error |-> "Missing required field"]]
                /\ handler' = [handler EXCEPT !.pc = "done"]
           ELSE /\ response' = response
                /\ handler' =
                      IF handler.endpoint = "single"
                      THEN [pc |-> "key", endpoint |-> "single",
                            texts |-> <<data.text>>,
                            tickers |-> <<Get(data, "ticker", NoneTicker)>>,
                            source |-> Get(data, "source", "unknown"),
                            options |-> Get(data, "options", <<>>)]
                      ELSE [pc |-> "key", endpoint |-> "batch",
                            texts |-> data.texts,
                            tickers |-> Get(data, "tickers", <<>>),
                            source |-> Get(data, "source", "unknown"),
                            options |-> Get(data, "options", <<>>)]
        /\ UNCHANGED <<data, trace, computed, served, thrVars, batchVars, textVars>>
        /\ UNCHANGED <<cacheVars, keyVars, itemVars>>

\* the `except Exception` of both handlers
InternalServerError(e) ==
    [status |-> 500, body |-> [error |-> "Internal server error", message |-> e]]

\* the tickers argument of generate_cache_key: the list as posted for a batch,
\* `[ticker] if ticker else []` for a single item
KeyTickers(h) ==
    IF h.endpoint = "single" /\ h.tickers = <<NoneTicker>> THEN <<>> ELSE h.tickers

\* `cache_key = cache_manager.generate_cache_key(...)`
CacheKey ==
    LET k == generate_cache_key(handler.texts, KeyTickers(handler), handler.source,
                                handler.options)
    IN  /\ handler.pc = "key"
        /\ trace' = Append2(trace, "generate_cache_key")
        /\ IF k.raised # ""
           THEN /\ response' = InternalServerError(k.raised)
                /\ handler' = [handler EXCEPT !.pc = "done"]
           ELSE /\ response' = response
                /\ handler' = [handler EXCEPT !.pc = "get"] @@ [cache_key |-> k.key]
        /\ UNCHANGED <<data, computed, served, thrVars, batchVars, textVars>>
        /\ UNCHANGED <<cacheVars, keyVars, itemVars>>

\* `cached_result = cache_manager.get(cache_key)` and the `if cached_result:`
CacheGet ==
    /\ handler.pc = "get"
    /\ \/ \E answers \in BOOLEAN :
             /\ GetRedis(handler.cache_key, answers)
             /\ handler' = [handler EXCEPT !.pc = IF Truthy(op'.ret) THEN "hit"
                                                  ELSE "preprocess"]
                                @@ [cached_result |-> op'.ret, answered |-> answers]
       \/ /\ GetMemory(handler.cache_key)
          /\ handler' = [handler EXCEPT !.pc = IF Truthy(op'.ret) THEN "hit"
                                               ELSE "preprocess"]
                             @@ [cached_result |-> op'.ret, answered |-> TRUE]
    /\ trace' = Append2(trace, "get")
    /\ UNCHANGED <<data, response, computed, served, thrVars, batchVars, textVars>>
    /\ UNCHANGED <<keyVars, itemVars>>

\* `return jsonify(cached_result)`
RespondHit ==
    /\ handler.pc = "hit"
    /\ response' = [status |-> 200, body |-> handler.cached_result.value]
    /\ handler' = [handler EXCEPT !.pc = "done"] @@ [hit |-> TRUE]
    /\ trace' = Append2(trace, "respond")
    /\ UNCHANGED <<data, computed, served, thrVars, batchVars, textVars>>
    /\ UNCHANGED <<cacheVars, keyVars, itemVars>>

\* `processed_texts = [text_preprocessor.preprocess(text, source) for text in texts]`
Preprocess ==
    /\ handler.pc = "preprocess"
    /\ handler' = [handler EXCEPT !.pc = IF handler.texts = <<>> THEN "format"
                                         ELSE "analyze"]
                      @@ [results |-> <<>>]
    /\ trace' = Append2(trace, "preprocess")
    /\ UNCHANGED <<data, response, computed, served, thrVars, batchVars, textVars>>
    /\ UNCHANGED <<cacheVars, keyVars, itemVars>>

\* analyze_batch: one turn of its loop (the only turn for /analyze/single)
AnalyzeItem ==
    LET i == Len(handler.results) + 1
        ticker == TickerAt(handler.tickers, i)
        result == analyze_single(handler.texts[i], ticker, handler.source)
    IN  /\ handler.pc = "analyze"
        /\ handler' = [handler EXCEPT !.results = Append2(@, result),
                                      !.pc = IF i = Len(handler.texts) THEN "format"
                                             ELSE "analyze"]
        /\ trace' = trace \o <<"providers", "ensemble">>
        /\ UNCHANGED <<data, response, computed, served, thrVars, batchVars, textVars>>
        /\ UNCHANGED <<cacheVars, keyVars, itemVars>>

\* `formatted_response = response_formatter.format_...(...)`
Format ==
    LET lengths == [i \in 1..Len(handler.texts) |-> TextLength(handler.texts[i])]
    IN  /\ handler.pc = "format"
        /\ handler' = [handler EXCEPT !.pc = "set"]
              @@ [formatted_response |->
                    IF handler.endpoint = "single"
                    THEN format_single_result(handler.results[1], lengths[1],
                                              handler.tickers[1], handler.source)
                    ELSE format_batch_results(handler.results, lengths, handler.tickers,
                                              handler.source)]
        /\ trace' = Append2(trace, "format")
        /\ UNCHANGED <<data, response, computed, served, thrVars, batchVars, textVars>>
        /\ UNCHANGED <<cacheVars, keyVars, itemVars>>

\* `cache_manager.set(cache_key, formatted_response, ttl=1800)`
CacheSet ==
    /\ handler.pc = "set"
    /\ \/ \E answers \in BOOLEAN :
             SetRedis(handler.cache_key, handler.formatted_response, 1800, answers)
       \/ SetMemory(handler.cache_key, handler.formatted_response, 1800)
    /\ handler' = [handler EXCEPT !.pc = "respond"]
    /\ trace' = Append2(trace, "set")
    /\ UNCHANGED <<data, response, computed, served, thrVars, batchVars, textVars>>
    /\ UNCHANGED <<keyVars, itemVars>>

\* `return jsonify(formatted_response)`
Respond ==
    /\ handler.pc = "respond"
    /\ response' = [status |-> 200, body |-> handler.formatted_response]
    /\ computed' = With(computed, handler.cache_key,
                        [data |-> data, endpoint |-> handler.endpoint,
                         body |-> handler.formatted_response])
    /\ handler' = [handler EXCEPT !.pc = "done"] @@ [hit |-> FALSE]
    /\ trace' = Append2(trace, "respond")
    /\ UNCHANGED <<data, served, thrVars, batchVars, textVars>>
    /\ UNCHANGED <<cacheVars, keyVars, itemVars>>

\* POST /cache/clear between two requests
ClearCache ==
    /\ handler.pc \in {"idle", "done"}
    /\ \/ \E answers \in BOOLEAN : ClearAllRedis(answers)
       \/ ClearAllMemory
    /\ UNCHANGED <<reqVars, thrVars, batchVars, textVars>>
    /\ UNCHANGED <<keyVars, itemVars>>

\* time passes between two requests: less than the ttl of 1800 s, or all of it
Elapse ==
    /\ handler.pc \in {"idle", "done"}
    /\ \E d \in RequestJumps : Advance(d)
    /\ UNCHANGED <<reqVars, thrVars, batchVars, textVars>>
    /\ UNCHANGED <<keyVars, itemVars>>

InitRequest ==
    /\ CacheInit
    /\ KeyIdle
    /\ ItemIdle
    /\ ReqInit
    /\ ThrIdle
    /\ BatchIdle
    /\ TextIdle

NextRequest ==
    \/ Receive
    \/ Validate
    \/ CacheKey
    \/ CacheGet
    \/ RespondHit
    \/ Preprocess
    \/ AnalyzeItem
    \/ Format
    \/ CacheSet
    \/ Respond
    \/ ClearCache
    \/ Elapse

SpecRequest == InitRequest /\ [][NextRequest]_vars

----------------------------------------------------------------------------
(* CacheManager's in-memory fallback called from concurrent request threads *)
(* (start.py runs the app with threaded=True; no lock guards the two dicts) *)

MaxCalls == 2
ThreadPayload == [results |-> "r1"]
NoStamp == -1

\* a thread is about to run the statement at line `line` of cache_manager.py
At(t, line) == thr[t].pc = line

\* the thread's call returns `ret`; key_error tells that a `del` or a lookup of
\* a key missing from one of the two dicts raised inside the call
Return(t, ret, key_error) ==
    /\ thr' = [thr EXCEPT ![t] = [pc |-> "idle", name |-> thr[t].name, key |-> thr[t].key,
                                  ret |-> ret, key_error |-> key_error,
                                  owed |-> thr[t].owed]]
    /\ op' = [name |-> thr[t].name, key |-> thr[t].key, at |-> now, ret |-> ret]

Goto(t, line) ==
    /\ thr' = [thr EXCEPT ![t].pc = line]
    /\ UNCHANGED op

ThreadsInit ==
    /\ redis_client = FALSE
    /\ redis_store = EmptyDict
    /\ memory_cache = EmptyDict
    /\ memory_cache_timestamps = EmptyDict
    /\ last_cleanup = NoCleanup
    /\ now = 0
    /\ ticks = 0
    /\ op = [name |-> "init", key |-> "", at |-> 0, ret |-> NoneResult]
    /\ put_log = EmptyDict
    /\ thr = [t \in Threads |-> IdleThread]
    /\ calls = [t \in Threads |-> 0]

\* a delete of `key`, or a clear_all, is between its call and its return
Removing(key) ==
    \E u \in Threads :
        \/ thr[u].pc \in {"clear197", "clear198"}
        \/ thr[u].pc \in {"delete169", "delete170", "delete171"} /\ thr[u].key = key

\* the calls under way on the keys `keys` stop being owed an entry
Disown(keys) ==
    [u \in Threads |->
        IF thr[u].pc # "idle" /\ thr[u].key \in keys
        THEN [thr[u] EXCEPT !.owed = FALSE]
        ELSE thr[u]]

\* a request thread calls get, set or delete with a key, or clear_all. The
\* record of completed sets follows: a get notes whether it holds a live
\* entry for its key, a set whether a removal of its key is under way, and a
\* delete or clear_all takes its keys off the record and disowns the calls
\* under way on them
Call(t) ==
    /\ At(t, "idle")
    /\ calls[t] < MaxCalls
    /\ calls' = [calls EXCEPT ![t] = @ + 1]
    /\ \/ \E key \in CacheKeys :
             /\ thr' = [thr EXCEPT ![t] =
                          [pc |-> "get93", name |-> "get", key |-> key,
                           owed |-> /\ key \in DOMAIN put_log
                                    /\ now - put_log[key].at < put_log[key].ttl]]
             /\ UNCHANGED put_log
       \/ \E key \in CacheKeys :
             /\ thr' = [thr EXCEPT ![t] =
                          [pc |-> "set141", name |-> "set", key |-> key,
                           owed |-> ~Removing(key)]]
             /\ UNCHANGED put_log
       \/ \E key \in CacheKeys :
             /\ thr' = [Disown({key}) EXCEPT ![t] =
                          [pc |-> "delete169", name |-> "delete", key |-> key,
                           owed |-> FALSE]]
             /\ put_log' = Without(put_log, key)
       \/ /\ thr' = [Disown(CacheKeys) EXCEPT ![t] =
                       [pc |-> "clear197", name |-> "clear_all", key |-> "",
                        owed |-> FALSE]]
          /\ put_log' = EmptyDict
    /\ UNCHANGED <<redis_client, redis_store, memory_cache, memory_cache_timestamps,
                   last_cleanup, now, ticks, op>>

\* get, line 93: `if key in self._memory_cache:`, else line 105 `return None`
Get93(t) ==
    /\ At(t, "get93")
    /\ IF thr[t].key \in DOMAIN memory_cache
       THEN Goto(t, "get95")
       ELSE Return(t, NoneResult, FALSE)
    /\ UNCHANGED <<memory_cache, memory_cache_timestamps, last_cleanup, put_log>>

\* get, lines 95-96: `timestamp = ....get(key)` and the freshness test
Get95(t) ==
    LET timestamp == IF thr[t].key \in DOMAIN memory_cache_timestamps
                     THEN memory_cache_timestamps[thr[t].key] ELSE NoStamp
    IN  /\ At(t, "get95")
        /\ IF timestamp # NoStamp /\ MemoryFresh(timestamp)
           THEN Goto(t, "get98")
           ELSE Goto(t, "get101")
        /\ UNCHANGED <<memory_cache, memory_cache_timestamps, last_cleanup, put_log>>

\* get, line 98: `return self._memory_cache[key]`; a KeyError goes to the except
Get98(t) ==
    /\ At(t, "get98")
    /\ IF thr[t].key \in DOMAIN memory_cache
       THEN Return(t, TryExcept(GetResult(memory_cache[thr[t].key]), NoneResult), FALSE)
       ELSE Return(t, TryExcept(Raised("KeyError"), NoneResult), TRUE)
    /\ UNCHANGED <<memory_cache, memory_cache_timestamps, last_cleanup, put_log>>

\* get, line 101: `del self._memory_cache[key]`
Get101(t) ==
    /\ At(t, "get101")
    /\ IF thr[t].key \in DOMAIN memory_cache
       THEN /\ memory_cache' = Without(memory_cache, thr[t].key)
            /\ Goto(t, "get102")
       ELSE /\ Return(t, TryExcept(Raised("KeyError"), NoneResult), TRUE)
            /\ UNCHANGED memory_cache
    /\ UNCHANGED <<memory_cache_timestamps, last_cleanup, put_log>>

\* get, line 102: `del self._memory_cache_timestamps[key]`, then `return None`
Get102(t) ==
    /\ At(t, "get102")
    /\ IF thr[t].key \in DOMAIN memory_cache_timestamps
       THEN /\ memory_cache_timestamps' = Without(memory_cache_timestamps, thr[t].key)
            /\ Return(t, NoneResult, FALSE)
       ELSE /\ Return(t, TryExcept(Raised("KeyError"), NoneResult), TRUE)
            /\ UNCHANGED memory_cache_timestamps
    /\ UNCHANGED <<memory_cache, last_cleanup, put_log>>

\* set, line 141: `self._memory_cache[key] = cached_value`
Set141(t) ==
    /\ At(t, "set141")
    /\ memory_cache' = With(memory_cache, thr[t].key, CachedValue(ThreadPayload, 0))
    /\ Goto(t, "set142")
    /\ UNCHANGED <<memory_cache_timestamps, last_cleanup, put_log>>

\* set, line 142: `self._memory_cache_timestamps[key] = datetime.now()`
Set142(t) ==
    /\ At(t, "set142")
    /\ memory_cache_timestamps' = With(memory_cache_timestamps, thr[t].key, now)
    /\ Goto(t, "cleanup268")
    /\ UNCHANGED <<memory_cache, last_cleanup, put_log>>

\* the set returns True: its entry goes on the record unless a delete of the
\* key or a clear_all was under way at some moment of the call
SetReturns(t) ==
    /\ Return(t, Returned(TRUE), FALSE)
    /\ put_log' =
          IF thr[t].owed
          THEN With(put_log, thr[t].key,
                    [value |-> ThreadPayload, ttl |-> EffectiveTtl(0), at |-> now])
          ELSE put_log

\* _cleanup_memory_cache, lines 268-280: the interval test and, when the sweep
\* is due, the keys found expired
Cleanup268(t) ==
    LET last1 == IF last_cleanup = NoCleanup THEN now ELSE last_cleanup
        expired_keys == {k \in DOMAIN memory_cache_timestamps :
                            now - memory_cache_timestamps[k] >= default_ttl}
    IN  /\ At(t, "cleanup268")
        /\ IF now - last1 < cleanup_interval
           THEN /\ last_cleanup' = last1
                /\ SetReturns(t)
           ELSE /\ last_cleanup' = last1
                /\ thr' = [thr EXCEPT ![t] =
                             [pc |-> "cleanup282", name |-> thr[t].name,
                              key |-> thr[t].key, owed |-> thr[t].owed,
                              expired_keys |-> expired_keys, current_time |-> now]]
                /\ UNCHANGED <<op, put_log>>
        /\ UNCHANGED <<memory_cache, memory_cache_timestamps>>

\* _cleanup_memory_cache, lines 282-286: one turn of `for key in expired_keys`
Cleanup282(t) ==
    /\ At(t, "cleanup282")
    /\ thr[t].expired_keys # {}
    /\ \E k \in thr[t].expired_keys :
          /\ memory_cache' = Without(memory_cache, k)
          /\ memory_cache_timestamps' = Without(memory_cache_timestamps, k)
          /\ thr' = [thr EXCEPT ![t].expired_keys = @ \ {k}]
    /\ UNCHANGED <<last_cleanup, op, put_log>>

\* _cleanup_memory_cache, line 291: `self._last_cleanup = current_time`
Cleanup291(t) ==
    /\ At(t, "cleanup282")
    /\ thr[t].expired_keys = {}
    /\ last_cleanup' = thr[t].current_time
    /\ SetReturns(t)
    /\ UNCHANGED <<memory_cache, memory_cache_timestamps>>

\* delete, line 169: `if key in self._memory_cache:`, else `return False`
Delete169(t) ==
    /\ At(t, "delete169")
    /\ IF thr[t].key \in DOMAIN memory_cache
       THEN Goto(t, "delete170")
       ELSE Return(t, Returned(FALSE), FALSE)
    /\ UNCHANGED <<memory_cache, memory_cache_timestamps, last_cleanup, put_log>>

\* delete, line 170: `del self._memory_cache[key]`
Delete170(t) ==
    /\ At(t, "delete170")
    /\ IF thr[t].key \in DOMAIN memory_cache
       THEN /\ memory_cache' = Without(memory_cache, thr[t].key)
            /\ Goto(t, "delete171")
       ELSE /\ Return(t, TryExcept(Raised("KeyError"), Returned(FALSE)), TRUE)
            /\ UNCHANGED memory_cache
    /\ UNCHANGED <<memory_cache_timestamps, last_cleanup, put_log>>

\* delete, line 171: `del self._memory_cache_timestamps[key]`, then `return True`
Delete171(t) ==
    /\ At(t, "delete171")
    /\ IF thr[t].key \in DOMAIN memory_cache_timestamps
       THEN /\ memory_cache_timestamps' = Without(memory_cache_timestamps, thr[t].key)
            /\ Return(t, Returned(TRUE), FALSE)
       ELSE /\ Return(t, TryExcept(Raised("KeyError"), Returned(FALSE)), TRUE)
            /\ UNCHANGED memory_cache_timestamps
    /\ UNCHANGED <<memory_cache, last_cleanup, put_log>>

\* clear_all, line 197: `self._memory_cache.clear()`
Clear197(t) ==
    /\ At(t, "clear197")
    /\ memory_cache' = EmptyDict
    /\ Goto(t, "clear198")
    /\ UNCHANGED <<memory_cache_timestamps, last_cleanup, put_log>>

\* clear_all, line 198: `self._memory_cache_timestamps.clear()`, then `return True`
Clear198(t) ==
    /\ At(t, "clear198")
    /\ memory_cache_timestamps' = EmptyDict
    /\ Return(t, Returned(TRUE), FALSE)
    /\ UNCHANGED <<memory_cache, last_cleanup, put_log>>

\* a statement of a memory-backend call touches the two dicts, _last_cleanup
\* and the thread's own position only
Statement == UNCHANGED <<redis_client, redis_store, now, ticks, calls,
                         keyVars, itemVars, reqVars, batchVars, textVars>>

\* the entries' ttl goes by while no call is under way
Expire ==
    /\ \A t \in Threads : At(t, "idle")
    /\ Advance(default_ttl)
    /\ UNCHANGED <<thr, calls>>

InitThreads ==
    /\ ThreadsInit
    /\ KeyIdle
    /\ ItemIdle
    /\ ReqIdle
    /\ BatchIdle
    /\ TextIdle

NextThreads ==
    \/ \E t \in Threads : Call(t) /\ UNCHANGED <<keyVars, itemVars, reqVars, batchVars, textVars>>
    \/ \E t \in Threads : Get93(t) /\ Statement
    \/ \E t \in Threads : Get95(t) /\ Statement
    \/ \E t \in Threads : Get98(t) /\ Statement
    \/ \E t \in Threads : Get101(t) /\ Statement
    \/ \E t \in Threads : Get102(t) /\ Statement
    \/ \E t \in Threads : Set141(t) /\ Statement
    \/ \E t \in Threads : Set142(t) /\ Statement
    \/ \E t \in Threads : Cleanup268(t) /\ Statement
    \/ \E t \in Threads : Cleanup282(t) /\ Statement
    \/ \E t \in Threads : Cleanup291(t) /\ Statement
    \/ \E t \in Threads : Delete169(t) /\ Statement
    \/ \E t \in Threads : Delete170(t) /\ Statement
    \/ \E t \in Threads : Delete171(t) /\ Statement
    \/ \E t \in Threads : Clear197(t) /\ Statement
    \/ \E t \in Threads : Clear198(t) /\ Statement
    \/ Expire /\ UNCHANGED <<keyVars, itemVars, reqVars, batchVars, textVars>>

SpecThreads == InitThreads /\ [][NextThreads]_vars

Quiescent == \A t \in Threads : At(t, "idle")

\* C15: under every interleaving of get, set, delete and clear_all, whenever
\* no operation is in progress the mapping and the timestamp index have the
\* same key set, and no operation has failed on a key that one of the two
\* structures holds and the other lacks.
C15_NoCorruption ==
    /\ Quiescent => DOMAIN memory_cache = DOMAIN memory_cache_timestamps
    /\ \A t \in Threads : (At(t, "idle") /\ "key_error" \in DOMAIN thr[t])
                                => ~thr[t].key_error

\* C16: a get issued after a set of its key has completed, with the entry not
\* past its ttl and no delete or clear_all since, returns the entry, whatever
\* the sweep and the expiry checks of other requests did in between.
C16_NoFreshLoss ==
    \A t \in Threads :
        (/\ At(t, "idle")
         /\ "ret" \in DOMAIN thr[t]
         /\ thr[t].name = "get"
         /\ thr[t].owed
         /\ thr[t].key \in DOMAIN put_log
         /\ now - put_log[thr[t].key].at < put_log[thr[t].key].ttl)
            => thr[t].ret.kind = "value"

IsPrefix(p, t) ==
    Len(p) <= Len(t) /\ \A i \in 1..Len(p) : p[i] = t[i]

RECURSIVE PerItem(_)
PerItem(n) ==
    IF n = 0 THEN <<>> ELSE <<"providers", "ensemble">> \o PerItem(n - 1)

\* the calls of a request served from the cache, and of one computed for n items
HitTrace == <<"generate_cache_key", "get", "respond">>
MissTrace(n) ==
    <<"generate_cache_key", "get", "preprocess">> \o PerItem(n)
        \o <<"format", "set", "respond">>

Answered200 == handler.pc = "done" /\ response.status = 200
ServedFromCache == Answered200 /\ handler.hit

\* the last successful store of the request's key is on record (no clear since)
\* and is younger than its ttl
EntryLive(key) ==
    /\ key \in DOMAIN put_log
    /\ now - put_log[key].at < put_log[key].ttl

\* C11: a response served from the cache has the same shape and the same
\* content as the body that was returned when the same request was computed on
\* a miss; the cache adds no wrapper or bookkeeping field.
C11_CacheInvisible ==
    (/\ ServedFromCache
     /\ handler.cache_key \in DOMAIN computed
     /\ computed[handler.cache_key].data = data
     /\ computed[handler.cache_key].endpoint = handler.endpoint)
        => /\ DOMAIN response.body = DOMAIN computed[handler.cache_key].body
           /\ response.body = computed[handler.cache_key].body

C18_InputValidation ==
    (/\ "endpoint" \in DOMAIN handler
     /\ handler.endpoint = "single"
     /\ ("text" \notin DOMAIN data \/ data.text = EmptyText))
        => /\ handler.pc \in {"validate", "done"}
           /\ trace = <<>>
           /\ handler.pc = "done" => response.status = 400

\* C19: a batch whose tickers list has null entries, is shorter than the texts
\* or is absent is processed without error, and the computed response has one
\* result per text, in input order, result i carrying tickers[i] when it exists
\* and null otherwise.
C19_OptionalTickers ==
    (/\ handler.pc = "done"
     /\ handler.endpoint = "batch"
     /\ "texts" \in DOMAIN data
     /\ ~("hit" \in DOMAIN handler /\ handler.hit))
        => /\ response.status = 200
           /\ Len(response.body.results) = Len(data.texts)
           /\ \A i \in 1..Len(data.texts) :
                 /\ response.body.results[i].metadata.ticker
                       = TickerAt(Get(data, "tickers", <<>>), i)
                 /\ response.body.results[i].analysis.text_length
                       = TextLength(data.texts[i])

\* the payload of a response: the body, or what the body of a cache hit holds
\* under 'data'
Content(body) ==
    IF DOMAIN body = {"data", "cached_at", "ttl"} THEN body.data ELSE body

\* the EnrichedResult of item i of the request being answered
ExpectedResult(i) ==
    LET ticker == TickerAt(handler.tickers, i)
    IN  format_single_result(analyze_single(handler.texts[i], ticker, handler.source),
                             TextLength(handler.texts[i]), ticker, handler.source)

\* C28: in every batch response, computed or served from the cache after any
\* earlier requests, results[i] is the analysis of the request's texts[i] and
\* carries the request's tickers[i]; no request is answered with the results
\* of a differently ordered batch or of another text-to-ticker pairing.
C28_PositionalCorrespondence ==
    (Answered200 /\ handler.endpoint = "batch") =>
        LET content == Content(response.body)
        IN  /\ "results" \in DOMAIN content
            /\ Len(content.results) = Len(handler.texts)
            /\ \A i \in 1..Len(handler.texts) : content.results[i] = ExpectedResult(i)

\* C29: after any sequence of batch and single-item requests, every
\* single-item response is one EnrichedResult and every batch response is a
\* result list with a summary, also when it is served from the cache: an
\* entry stored by one endpoint is never returned by the other.
C29_EndpointIsolation ==
    Answered200 =>
        LET content == Content(response.body)
        IN  IF handler.endpoint = "single"
            THEN /\ "sentiment" \in DOMAIN content
                 /\ "results" \notin DOMAIN content
            ELSE /\ "results" \in DOMAIN content
                 /\ "summary" \in DOMAIN content
                 /\ "sentiment" \notin DOMAIN content

\* the results of the providers in S alone
Restrict(d, S) == [k \in S |-> d[k]]

\* C17: a provider whose invocation raised is recorded as a failure of that
\* provider alone; the providers after it are still invoked, and the ensemble
\* score, confidence and agreement are those of the successful providers, just
\* as if the failed ones had not taken part.
C17_FailureIsolation ==
    /\ \A m \in DOMAIN models :
          models[m].error =>
              models[m] = [score |-> Zero, label |-> "neutral",
                           confidence |-> Zero, error |-> TRUE]
    /\ pc \in {"financial_lexicon", "ensemble", "format", "done"}
          => "textblob" \in DOMAIN models
    /\ Ensembled =>
          /\ {"textblob", "financial_lexicon"} \subseteq DOMAIN models
          /\ ensemble = CalculateEnsembleSentiment(Restrict(models, Successful))

\* the first provider raised, the three after it were invoked and two of them
\* succeeded with scores that differ, and the verdict was computed from them
C17_Witness ==
    /\ Ensembled
    /\ "finbert" \in DOMAIN models /\ models["finbert"].error
    /\ {"vader", "textblob", "financial_lexicon"} \subseteq DOMAIN models
    /\ Cardinality(Successful) >= 2
    /\ ensemble.score # Zero
    /\ RLt(Zero, ensemble.model_agreement.rad)

----------------------------------------------------------------------------
(* TextPreprocessor.preprocess: a text as a sequence of tokens *)

MaxTokens == 2

\* a token: its kind, its characters as posted, and whether it still holds its
\* upper-case letters (up = FALSE: the characters of `id`, lower-cased)
Tok(k, id, up) == [k |-> k, id |-> id, up |-> up]

\* the tokens of a posted text: a capitalised word, two ticker symbols, a slang
\* term, an emoji of the mapping and one outside it, a URL, a handle, a
\* hashtag, two numbers, an HTML tag, a run of four dots and a run of two `!`
RawTokens ==
    {Tok("word", "Buy", TRUE),
     Tok("ticker", "$AAPL", TRUE), Tok("ticker", "$TSLA", TRUE),
     Tok("slang", "HODL", TRUE),
     Tok("emoji", "rocket", FALSE), Tok("emoji", "unmapped", FALSE),
     Tok("url", "http://x.co/a", FALSE),
     Tok("mention", "@User", TRUE),
     Tok("hashtag", "#Stocks", TRUE),
     Tok("number", "150.50", FALSE), Tok("number", "5", FALSE),
     Tok("html", "<b>", FALSE),
     Tok("dots", "....", FALSE),
     Tok("bangs", "!!", FALSE)}

Str(toks) == [kind |-> "str", toks |-> toks]
\* the `text` argument: None, a value that is no string, "" or a text
RawTexts ==
    {[kind |-> "None"], [kind |-> "int"]}
        \cup {Str(t) : t \in SeqsUpTo(RawTokens, 0, MaxTokens)}
\* the `source` argument: a profile name in some letter case, a name without
\* a profile, None or a value that is no string
RawSources ==
    {[kind |-> "str", value |-> v] :
        v \in {"reddit", "Reddit", "finviz", "news", "yahoo", "twitter"}}
        \cup {[kind |-> "None"], [kind |-> "int"]}

\* str.lower() of a source name
SourceLower(v) ==
    IF v = "Reddit" THEN "reddit" ELSE v

\* str.lower() of one token
Lower(t) == [t EXCEPT !.up = FALSE]
\* str.lower() of a text
LowerText(text) == [i \in 1..Len(text) |-> Lower(text[i])]

IsKind(t, k) == t.k = k
\* re.sub(pattern, ' ', text) for a pattern that matches the tokens of kind k
Strip(text, k) == SelectSeq(text, LAMBDA t : ~IsKind(t, k))

\* _convert_emojis_to_text: the mapped emoji become their phrase, the others go
ConvertEmojisToText(text) ==
    LET mapped == [i \in 1..Len(text) |->
                      IF IsKind(text[i], "emoji") /\ text[i].id # "unmapped"
                      THEN Tok("word", "very bullish rocket", FALSE)
                      ELSE text[i]]
    IN  Strip(mapped, "emoji")

\* _normalize_slang: `text_lower = text.lower()`, the substitutions on
\* text_lower, `return text_lower`
NormalizeSlang(text) ==
    LET text_lower == LowerText(text)
    IN  [i \in 1..Len(text_lower) |->
            IF IsKind(text_lower[i], "slang") THEN Tok("word", "hold", FALSE)
            ELSE text_lower[i]]

\* mention_pattern.sub(' user_mention ', text)
ReplaceMentions(text) ==
    [i \in 1..Len(text) |->
        IF IsKind(text[i], "mention") THEN Tok("word", "user_mention", FALSE) ELSE text[i]]

\* hashtag_pattern.sub(lambda m: m.group(0)[1:], text)
ReplaceHashtags(text) ==
    [i \in 1..Len(text) |->
        IF IsKind(text[i], "hashtag") THEN Tok("word", "Stocks", text[i].up) ELSE text[i]]

\* the placeholder text, as the code writes it
Marker(name) == Tok("marker", name, TRUE)

\* ticker_pattern = \$[A-Z]{1,5}\b : upper-case letters only
MatchesTicker(t) == IsKind(t, "ticker") /\ t.up
\* number_pattern = \b\d+(?:\.\d+)?[%]?\b
MatchesNumber(t) == IsKind(t, "number")

\* pattern.findall(text)
FindTickers(text) == SelectSeq(text, MatchesTicker)
FindNumbers(text) == SelectSeq(text, MatchesNumber)

\* pattern.sub(' TICKER_SYMBOL ', text) and pattern.sub(' FINANCIAL_NUMBER ', text)
SubTickers(text) ==
    [i \in 1..Len(text) |-> IF MatchesTicker(text[i]) THEN Marker("TICKER_SYMBOL")
                            ELSE text[i]]
SubNumbers(text) ==
    [i \in 1..Len(text) |-> IF MatchesNumber(text[i]) THEN Marker("FINANCIAL_NUMBER")
                            ELSE text[i]]

\* _basic_clean: text.lower(), the whitespace passes, then 3+ dots -> '...'
BasicClean(text) ==
    LET lowered == LowerText(text)
    IN  [i \in 1..Len(lowered) |->
            IF IsKind(lowered[i], "dots") THEN Tok("dots", "...", FALSE) ELSE lowered[i]]

\* re.sub(r'[!]{2,}', '!', text)
CollapseBangs(text) ==
    [i \in 1..Len(text) |->
        IF IsKind(text[i], "bangs") THEN Tok("bangs", "!", FALSE) ELSE text[i]]

\* text.replace(marker, token, 1): the first occurrence of the marker as the
\* code wrote it, upper case, if there is one
ReplaceFirst(text, name, token) ==
    LET hits == {i \in 1..Len(text) : text[i] = Marker(name)}
    IN  IF hits = {} THEN text
        ELSE LET first == CHOOSE i \in hits : \A j \in hits : i <= j
             IN  [text EXCEPT ![first] = token]

\* `for ticker in tickers: text = text.replace('TICKER_SYMBOL', ticker, 1)`
RECURSIVE Restore(_, _, _)
Restore(text, name, tokens) ==
    IF tokens = <<>> THEN text
    ELSE Restore(ReplaceFirst(text, name, Head(tokens)), name, Tail(tokens))

\* the bodies of the four profile functions, statement by statement
RedditPasses ==
    <<"convert_emojis", "normalize_slang", "urls", "mentions", "hashtags",
      "protect_tickers", "basic_clean", "restore_tickers">>
FinvizPasses == <<"html", "urls", "protect_numbers", "basic_clean", "restore_numbers">>
NewsPasses == <<"html", "urls", "punctuation", "basic_clean">>
GenericPasses == <<"urls", "basic_clean">>

\* the if/elif chain of preprocess on source.lower()
ProfileOf(src) ==
    CASE SourceLower(src) = "reddit" -> RedditPasses
      [] SourceLower(src) = "finviz" -> FinvizPasses
      [] SourceLower(src) \in {"news", "yahoo"} -> NewsPasses
      [] OTHER -> GenericPasses

TextInit ==
    norm \in {[pc |-> "call", text |-> t, source |-> src, cur |-> <<>>, kept |-> <<>>,
               todo |-> <<>>, passes |-> <<>>, out |-> [kind |-> "pending"]] :
                 t \in RawTexts, src \in RawSources}

Aside == UNCHANGED <<cacheVars, keyVars, itemVars, reqVars, thrVars, batchVars>>

\* preprocess(text, source): the guard of line 87 and the choice of a profile;
\* source.lower() of a source that is no string raises AttributeError
PreprocessCall ==
    /\ norm.pc = "call"
    /\ IF ~(norm.text.kind = "str" /\ norm.text.toks # <<>>)
       THEN norm' = [norm EXCEPT !.pc = "done", !.out = Str(<<>>)]
       ELSE IF norm.source.kind # "str"
            THEN norm' = [norm EXCEPT !.pc = "done", !.out = Raised("AttributeError")]
            ELSE norm' = [norm EXCEPT !.pc = "run", !.cur = norm.text.toks,
                                      !.todo = ProfileOf(norm.source.value)]
    /\ Aside

\* the next statement of the profile function is `name`
NextPass(name) ==
    norm.pc = "run" /\ norm.todo # <<>> /\ Head(norm.todo) = name

\* the statement ran: the text it leaves and what it logged
Ran(cur, kept, logged) ==
    /\ norm' = [norm EXCEPT !.cur = cur, !.kept = kept, !.todo = Tail(@),
                            !.passes = @ \o logged]
    /\ Aside

PassConvertEmojis ==
    NextPass("convert_emojis")
        /\ Ran(ConvertEmojisToText(norm.cur), norm.kept, <<"convert_emojis">>)

PassNormalizeSlang ==
    NextPass("normalize_slang")
        /\ Ran(NormalizeSlang(norm.cur), norm.kept, <<"lowercase", "normalize_slang">>)

PassHtml ==
    NextPass("html") /\ Ran(Strip(norm.cur, "html"), norm.kept, <<"html">>)

PassUrls ==
    NextPass("urls") /\ Ran(Strip(norm.cur, "url"), norm.kept, <<"urls">>)

PassMentions ==
    NextPass("mentions") /\ Ran(ReplaceMentions(norm.cur), norm.kept, <<"mentions">>)

PassHashtags ==
    NextPass("hashtags") /\ Ran(ReplaceHashtags(norm.cur), norm.kept, <<"hashtags">>)

PassProtectTickers ==
    NextPass("protect_tickers")
        /\ Ran(SubTickers(norm.cur), FindTickers(norm.cur), <<"protect_tickers">>)

PassProtectNumbers ==
    NextPass("protect_numbers")
        /\ Ran(SubNumbers(norm.cur), FindNumbers(norm.cur), <<"protect_numbers">>)

PassPunctuation ==
    NextPass("punctuation")
        /\ Ran(CollapseBangs(norm.cur), norm.kept, <<"collapse_punctuation">>)

PassBasicClean ==
    NextPass("basic_clean")
        /\ Ran(BasicClean(norm.cur), norm.kept,
               <<"lowercase", "whitespace", "collapse_punctuation">>)

PassRestoreTickers ==
    NextPass("restore_tickers")
        /\ Ran(Restore(norm.cur, "TICKER_SYMBOL", norm.kept), norm.kept,
               <<"restore_tickers">>)

PassRestoreNumbers ==
    NextPass("restore_numbers")
        /\ Ran(Restore(norm.cur, "FINANCIAL_NUMBER", norm.kept), norm.kept,
               <<"restore_numbers">>)

\* `return text.strip()`
ReturnStripped ==
    /\ norm.pc = "run"
    /\ norm.todo = <<>>
    /\ norm' = [norm EXCEPT !.pc = "done", !.out = Str(norm.cur)]
    /\ Aside

InitText ==
    /\ CacheIdle
    /\ KeyIdle
    /\ ItemIdle
    /\ ReqIdle
    /\ ThrIdle
    /\ BatchIdle
    /\ TextInit

NextText ==
    \/ PreprocessCall
    \/ PassConvertEmojis
    \/ PassNormalizeSlang
    \/ PassHtml
    \/ PassUrls
    \/ PassMentions
    \/ PassHashtags
    \/ PassProtectTickers
    \/ PassProtectNumbers
    \/ PassPunctuation
    \/ PassBasicClean
    \/ PassRestoreTickers
    \/ PassRestoreNumbers
    \/ ReturnStripped

SpecText == InitText /\ [][NextText]_vars

\* the call returned a string
Normalized == norm.pc = "done" /\ norm.out.kind = "str"
\* the call was made with a text and a source name of the social-media profile
SocialMedia ==
    /\ norm.pc # "off"
    /\ norm.text.kind = "str"
    /\ norm.source.kind = "str"
    /\ SourceLower(norm.source.value) = "reddit"

\* C22: in the social-media profile every ticker symbol of the input is in the
\* output verbatim, upper case, in the input's order, taken out before any
\* lowercasing, and the rest of the output is lower case.
C22_TickerProtection ==
    (Normalized /\ SocialMedia) =>
        /\ SelectSeq(norm.out.toks, MatchesTicker) = SelectSeq(norm.text.toks, MatchesTicker)
        /\ \A i \in 1..Len(norm.out.toks) :
              ~MatchesTicker(norm.out.toks[i]) => ~norm.out.toks[i].up
        /\ \A i \in 1..Len(norm.passes) :
              norm.passes[i] = "lowercase" =>
                  \E j \in 1..(i - 1) : norm.passes[j] = "protect_tickers"

\* the call was made with a text and a source name of the listing-site profile
Listing ==
    /\ norm.pc # "off"
    /\ norm.text.kind = "str"
    /\ norm.text.toks # <<>>
    /\ norm.source.kind = "str"
    /\ SourceLower(norm.source.value) = "finviz"

\* C23: whatever the text and the source, the output holds no placeholder
\* marker in any letter case; in the listing-site profile every number taken
\* out is back verbatim, as many restored as extracted.
C23_NoPlaceholderLeak ==
    Normalized =>
        /\ \A i \in 1..Len(norm.out.toks) : ~IsKind(norm.out.toks[i], "marker")
        /\ Listing =>
              /\ norm.kept = FindNumbers(norm.text.toks)
              /\ FindNumbers(norm.out.toks) = norm.kept

\* C24: preprocess never raises, whatever the source (a name with or without a
\* profile, None, no string); for a text that is None, no string or empty it
\* returns the empty string.
C24_SoftFailure ==
    norm.pc = "done" =>
        /\ norm.out.kind = "str"
        /\ ~(norm.text.kind = "str" /\ norm.text.toks # <<>>) => norm.out = Str(<<>>)

\* the order the social-media passes are said to run in
StatedOrder ==
    <<"urls", "mentions", "hashtags", "convert_emojis", "normalize_slang",
      "collapse_punctuation", "protect_tickers", "lowercase">>
Rank(name) == CHOOSE i \in 1..Len(StatedOrder) : StatedOrder[i] = name
Stated == {StatedOrder[i] : i \in 1..Len(StatedOrder)}

\* C27: in the social-media profile the passes run in the order URL
\* stripping, handles and hashtags, emoji, slang, punctuation collapsing, all
\* before ticker protection, and the text is lower-cased only after that, in
\* the generic cleanup.
C27_PassOrder ==
    SocialMedia =>
        \A i, j \in 1..Len(norm.passes) :
            (i < j /\ norm.passes[i] \in Stated /\ norm.passes[j] \in Stated)
                => Rank(norm.passes[i]) <= Rank(norm.passes[j])

====
